---------------------------- MODULE Spec2Model ----------------------------
(***************************************************************************)
(* Model of working_assistant.py: the call parser, the sandboxed tool      *)
(* manager and the bounded autonomous loop of WorkingAIAssistant.          *)
(*                                                                         *)
(* Text is modelled character by character: a Python str is a sequence of  *)
(* one-character strings, so that splitting, trimming, quote tracking and  *)
(* length are computed the way the code computes them.                     *)
(***************************************************************************)
EXTENDS Integers, Sequences, FiniteSets, TLC

(***************************************************************************)
(* Python str primitives                                                   *)
(***************************************************************************)
Min(S) == CHOOSE x \in S : \A y \in S : x <= y

\* the element of a one-element set.  An intermediate value e is bound as
\* The({body : x \in {e}}): unlike a LET definition, which is expanded where
\* it is used, x is computed once, also where a formula is evaluated under
\* ENABLED.
The(S) == CHOOSE x \in S : TRUE

Max(S) == CHOOSE x \in S : \A y \in S : x >= y

\* str.isspace() for the characters the model uses
Whitespace == {" ", "\n", "\t"}

\* the regex class \w
WordChars ==
    {"a","b","c","d","e","f","g","h","i","j","k","l","m","n","o","p","q","r",
     "s","t","u","v","w","x","y","z","A","B","C","D","E","F","G","H","I","J",
     "K","L","M","N","O","P","Q","R","S","T","U","V","W","X","Y","Z","0","1",
     "2","3","4","5","6","7","8","9","_"}

\* s[i:] with a 1-based index
From(s, i) == SubSeq(s, i, Len(s))

\* `pat in s[from-1:]`, as the 1-based index of the first occurrence, 0 if none
IndexOf(s, pat, from) ==
    The({IF c = {} THEN 0 ELSE Min(c) :
         c \in {The({{i \in from..(Len(t) - Len(pat) + 1) : SubSeq(t, i, i + Len(pat) - 1) = pat} :
                     t \in {s}})}})

\* `pat in s`
Contains(s, pat) == IndexOf(s, pat, 1) # 0

\* str.strip(): leading and trailing whitespace removed
Strip(s) ==
    The({The({IF keep = {} THEN <<>> ELSE SubSeq(t, Min(keep), Max(keep)) :
              keep \in {{i \in 1..Len(t) : t[i] \notin Whitespace}}}) :
         t \in {s}})

\* str.lstrip()
LStrip(s) ==
    The({The({IF keep = {} THEN <<>> ELSE From(t, Min(keep)) :
              keep \in {{i \in 1..Len(t) : t[i] \notin Whitespace}}}) :
         t \in {s}})

\* str.split(sep): every occurrence of the separator splits, empty fields kept
RECURSIVE SplitAll(_, _)
SplitAll(s, sep) ==
    The({IF i = 0 THEN <<s>>
         ELSE <<SubSeq(s, 1, i - 1)>>
              \o The({SplitAll(rest, sep) : rest \in {From(s, i + Len(sep))}}) :
         i \in {IndexOf(s, sep, 1)}})

\* str.split(sep, maxsplit): at most maxsplit splits, the rest left whole
RECURSIVE SplitMax(_, _, _)
SplitMax(s, sep, maxsplit) ==
    The({IF maxsplit = 0 \/ i = 0 THEN <<s>>
         ELSE <<SubSeq(s, 1, i - 1)>>
              \o The({SplitMax(rest, sep, left) :
                          rest \in {From(s, i + Len(sep))}, left \in {maxsplit - 1}}) :
         i \in {IndexOf(s, sep, 1)}})

\* value[1:-1] when the value starts and ends with the same quote character.
\* A one-character value that is a quote starts and ends with it: [1:-1] is "".
StripQuotes(value) ==
    IF Len(value) >= 1
       /\ \/ (value[1] = "\"" /\ value[Len(value)] = "\"")
          \/ (value[1] = "'" /\ value[Len(value)] = "'")
    THEN SubSeq(value, 2, Len(value) - 1)
    ELSE value

\* a Python dict with string keys: a function on the set of its keys
EmptyArgs == <<>>

\* args[key] = value
Put(args, key, value) ==
    [k \in (DOMAIN args) \cup {key} |-> IF k = key THEN value ELSE args[k]]

\* `if '=' in pair: key, value = pair.split('=', 1); args[key.strip()] = value`
\* with the value stripped and unquoted
PutPair(args, pair) ==
    The({IF eq = 0 THEN args
         ELSE Put(args, Strip(SubSeq(pair, 1, eq - 1)), StripQuotes(Strip(From(pair, eq + 1)))) :
         eq \in {IndexOf(pair, <<"=">>, 1)}})

\* the loop `for pair in pairs:` over the pairs
RECURSIVE ParsePairs(_, _)
ParsePairs(pairs, args) ==
    IF pairs = <<>> THEN args
    ELSE The({ParsePairs(rest, nx) : rest \in {Tail(pairs)}, nx \in {PutPair(args, Head(pairs))}})

\* [p.strip() for p in s.split(',') if p.strip()]
StrippedNonEmpty(fields) ==
    LET stripped == [i \in 1..Len(fields) |-> Strip(fields[i])]
    IN SelectSeq(stripped, LAMBDA p : p # <<>>)

\* the next quote character or comma at or after i (Len(s) + 1 if none): the
\* characters before it all take the loop's last branch, current_pair.append
NextSpecial(s, i) ==
    The({IF c = {} THEN Len(s) + 1 ELSE Min(c) :
         c \in {{k \in i..Len(s) : s[k] \in {"\"", "'", ","}}}})

(***************************************************************************)
(* The quote-aware split of the simple branch.  st is the loop's state     *)
(* after the characters before index i: pairs, current_pair, in_quote,     *)
(* quote_char ("" for None).                                               *)
(***************************************************************************)
\* one pass of the loop body on an active quote character, a comma or any
\* other character
SmartStep(st, char) ==
    IF char \in {"\"", "'"} /\ (~st.inq \/ char = st.qc)
    THEN [pairs |-> st.pairs, cur |-> Append(st.cur, char),
          inq |-> ~st.inq, qc |-> IF ~st.inq THEN char ELSE ""]
    ELSE IF char = "," /\ ~st.inq
    THEN [pairs |-> IF Strip(st.cur) # <<>> THEN Append(st.pairs, Strip(st.cur)) ELSE st.pairs,
          cur |-> <<>>, inq |-> st.inq, qc |-> st.qc]
    ELSE [pairs |-> st.pairs, cur |-> Append(st.cur, char), inq |-> st.inq, qc |-> st.qc]

RECURSIVE SmartSplitFrom(_, _, _)
SmartSplitFrom(s, i, st) ==
    IF i > Len(s)
    THEN IF Strip(st.cur) # <<>> THEN Append(st.pairs, Strip(st.cur)) ELSE st.pairs
    ELSE The({IF j > i
              THEN The({SmartSplitFrom(s, j, nx) :
                           nx \in {[st EXCEPT !.cur = st.cur \o SubSeq(s, i, j - 1)]}})
              ELSE The({SmartSplitFrom(s, k, nx) : k \in {i + 1}, nx \in {SmartStep(st, s[i])}}) :
              j \in {NextSpecial(s, i)}})

\* a split on every comma, quoted or not
NaiveSplit(s) == StrippedNonEmpty(SplitAll(s, <<",">>))

SmartSplit(s) ==
    SmartSplitFrom(s, 1, [pairs |-> <<>>, cur |-> <<>>, inq |-> FALSE, qc |-> ""])

\* the simple branch: quote-aware split, then key=value per pair
ParseSimple(args_str) == ParsePairs(SmartSplit(args_str), EmptyArgs)

(***************************************************************************)
(* The triple-quote branch                                                 *)
(***************************************************************************)
TripleSingle == <<"'", "'", "'">>

TripleDouble == <<"\"", "\"", "\"">>

\* the maximal run of \w characters that ends at index e (empty if s[e] is not \w)
WordRunStart(s, e) ==
    LET nonword == {j \in 1..e : s[j] \notin WordChars}
    IN IF nonword = {} THEN 1 ELSE Max(nonword) + 1

\* does `rest` match  ,?\s*\w+\s*=\s*$  (the tail of simple_params_match)
MatchesParamTail(rest) ==
    LET r1 == IF rest # <<>> /\ rest[1] = "," THEN Tail(rest) ELSE rest
        r2 == LStrip(r1)
        nonword == {j \in 1..Len(r2) : r2[j] \notin WordChars}
        wend == IF nonword = {} THEN Len(r2) ELSE Min(nonword) - 1
        r3 == LStrip(From(r2, wend + 1))
    IN /\ wend >= 1
       /\ r3 # <<>>
       /\ r3[1] = "="
       /\ Strip(Tail(r3)) = <<>>

\* re.match(r'(.*?),?\s*\w+\s*=\s*$', before_content): the lazy group(1) is the
\* shortest prefix without a newline (no DOTALL here) whose rest matches the tail
SimpleParamsMatch(before_content) ==
    LET firstNl == IndexOf(before_content, <<"\n">>, 1)
        maxk == IF firstNl = 0 THEN Len(before_content) ELSE firstNl - 1
        ks == {k \in 0..maxk : MatchesParamTail(From(before_content, k + 1))}
    IN IF ks = {} THEN [ok |-> FALSE, group1 |-> <<>>]
       ELSE [ok |-> TRUE, group1 |-> SubSeq(before_content, 1, Min(ks))]

\* re.search(r'(\w+)\s*=\s*$', stripped): the word run right before the final `=`
ParamMatch(stripped) ==
    LET n == Len(stripped)
        beforeEq == IF n >= 1 THEN Strip(SubSeq(stripped, 1, n - 1)) ELSE <<>>
        m == Len(beforeEq)
    IN IF n >= 1 /\ stripped[n] = "=" /\ m >= 1 /\ beforeEq[m] \in WordChars
       THEN [ok |-> TRUE, name |-> From(beforeEq, WordRunStart(beforeEq, m))]
       ELSE [ok |-> FALSE, name |-> <<>>]

\* the comma split of the parameters that precede the triple-quoted one
PrefixPairs(simple_params_str) ==
    StrippedNonEmpty(SplitAll(simple_params_str, <<",">>))

\* the triple-quote branch of parse_and_execute_tools
ParseTriple(args_str) ==
    LET quote_type == IF Contains(args_str, TripleSingle) THEN TripleSingle ELSE TripleDouble
        parts == SplitMax(args_str, quote_type, 2)
    IN IF Len(parts) < 3 THEN EmptyArgs
       ELSE LET before_content == parts[1]
                content == parts[2]
                spm == SimpleParamsMatch(before_content)
                simple == IF spm.ok THEN ParsePairs(PrefixPairs(spm.group1), EmptyArgs)
                          ELSE EmptyArgs
                pm == ParamMatch(Strip(before_content))
            IN IF Strip(before_content) = <<>> THEN EmptyArgs
               ELSE IF pm.ok THEN Put(simple, pm.name, content) ELSE simple

\* the argument parsing of one match: args_str -> args
ParseArgs(args_str) ==
    LET s == Strip(args_str)
    IN IF s = <<>> THEN EmptyArgs
       ELSE IF Contains(s, TripleSingle) \/ Contains(s, TripleDouble)
       THEN ParseTriple(s)
       ELSE ParseSimple(s)

(***************************************************************************)
(* re.findall(r'\[TOOL:\s*(\w+)\((.*?)\)\]', response, re.DOTALL)          *)
(***************************************************************************)
ToolOpen == <<"[", "T", "O", "O", "L", ":">>

CallClose == <<")", "]">>

\* a match whose body runs to the last )] of the text (a greedy body)
MatchAtGreedy(s, i) ==
    LET afterOpen == i + Len(ToolOpen)
        nonws == {j \in afterOpen..Len(s) : s[j] \notin Whitespace}
        nameStart == IF nonws = {} THEN Len(s) + 1 ELSE Min(nonws)
        nonword == {j \in nameStart..Len(s) : s[j] \notin WordChars}
        nameEnd == IF nonword = {} THEN Len(s) ELSE Min(nonword) - 1
        closes == {j \in (nameEnd + 2)..(Len(s) - 1) : SubSeq(s, j, j + 1) = CallClose}
        close == IF closes = {} THEN 0 ELSE Max(closes)
    IN IF /\ SubSeq(s, i, afterOpen - 1) = ToolOpen
          /\ nameEnd >= nameStart
          /\ nameEnd + 1 <= Len(s)
          /\ s[nameEnd + 1] = "("
          /\ close # 0
       THEN [ok |-> TRUE, name |-> SubSeq(s, nameStart, nameEnd),
             body |-> SubSeq(s, nameEnd + 2, close - 1), end |-> close + 2]
       ELSE [ok |-> FALSE, name |-> <<>>, body |-> <<>>, end |-> i + 1]

\* a match that starts at index i: [TOOL: , \s*, \w+, ( , the lazy body, )]
MatchAt(s, i) ==
    LET afterOpen == i + Len(ToolOpen)
        nonws == {j \in afterOpen..Len(s) : s[j] \notin Whitespace}
        nameStart == IF nonws = {} THEN Len(s) + 1 ELSE Min(nonws)
        nonword == {j \in nameStart..Len(s) : s[j] \notin WordChars}
        nameEnd == IF nonword = {} THEN Len(s) ELSE Min(nonword) - 1
        close == IndexOf(s, CallClose, nameEnd + 2)
    IN IF /\ SubSeq(s, i, afterOpen - 1) = ToolOpen
          /\ nameEnd >= nameStart
          /\ nameEnd + 1 <= Len(s)
          /\ s[nameEnd + 1] = "("
          /\ close # 0
       THEN [ok |-> TRUE, name |-> SubSeq(s, nameStart, nameEnd),
             body |-> SubSeq(s, nameEnd + 2, close - 1), end |-> close + 2]
       ELSE [ok |-> FALSE, name |-> <<>>, body |-> <<>>, end |-> i + 1]

\* the non-overlapping matches from index i on, leftmost first
RECURSIVE FindAllFrom(_, _)
FindAllFrom(s, i) ==
    The({IF next = 0 THEN <<>>
         ELSE The({IF m.ok
                   THEN <<[name |-> m.name, body |-> m.body]>>
                        \o The({FindAllFrom(s, e) : e \in {m.end}})
                   ELSE The({FindAllFrom(s, k) : k \in {next + 1}}) :
                   m \in {MatchAt(s, next)}}) :
         next \in {IndexOf(s, ToolOpen, i)}})

FindAll(response) == FindAllFrom(response, 1)

\* the first call of a response only (a search in place of finditer)
FirstCallOnly(response) ==
    LET matches == FindAll(response)
    IN [k \in 1..Min({1, Len(matches)}) |->
           [tool |-> matches[k].name, args |-> ParseArgs(matches[k].body)]]

\* the calls of a response in parser order: name and parsed arguments
ParseCalls(response) ==
    The({[k \in 1..Len(matches) |->
             [tool |-> matches[k].name, args |-> ParseArgs(matches[k].body)]] :
         matches \in {FindAll(response)}})

(***************************************************************************)
(* Names the model spells out character by character                       *)
(***************************************************************************)
s_read_file == <<"r","e","a","d","_","f","i","l","e">>

s_write_file == <<"w","r","i","t","e","_","f","i","l","e">>

s_append_file == <<"a","p","p","e","n","d","_","f","i","l","e">>

s_list_directory == <<"l","i","s","t","_","d","i","r","e","c","t","o","r","y">>

s_create_directory == <<"c","r","e","a","t","e","_","d","i","r","e","c","t","o","r","y">>

s_execute_python == <<"e","x","e","c","u","t","e","_","p","y","t","h","o","n">>

s_run_command == <<"r","u","n","_","c","o","m","m","a","n","d">>

s_file_path == <<"f","i","l","e","_","p","a","t","h">>

s_dir_path == <<"d","i","r","_","p","a","t","h">>

s_content == <<"c","o","n","t","e","n","t">>

s_code == <<"c","o","d","e">>

s_command == <<"c","o","m","m","a","n","d">>

s_timeout == <<"t","i","m","e","o","u","t">>

s_cwd == <<"c","w","d">>

s_input == <<"i","n","p","u","t">>

(***************************************************************************)
(* Inputs of the parser specification: one call, written out from a        *)
(* description of its arguments.                                           *)
(***************************************************************************)
\* longest generated argument value
MaxValLen == 2

\* characters of generated simple values
ValueChars == {"a", ",", " ", "=", "'", "\""}

\* characters of generated triple-quoted content
ContentChars == {"a", ",", "\n", "="}

\* all sequences over S of length at most n
SeqsUpTo(S, n) == UNION {[1..k -> S] : k \in 0..n}

HasAny(s, chars) == \E i \in 1..Len(s) : s[i] \in chars

\* the value is written the way the grammar allows: an unquoted value holds no
\* comma and no quote character, a quoted one does not hold its own quote
WellQuoted(q, val) ==
    IF q = "" THEN ~HasAny(val, {",", "'", "\""})
    ELSE ~HasAny(val, {q})

\* a simple argument as it is written: key, quote character ("" for none), value,
\* and whether blanks surround the `=` and the value
SimpleArgs(n) ==
    {a \in [key : {s_file_path}, q : {"", "'", "\""}, val : SeqsUpTo(ValueChars, n),
            sp : BOOLEAN] : WellQuoted(a.q, a.val)}

\* second item of a call: nothing, a token without `=`, or a short argument
SecondItems ==
    {[kind |-> "none", q |-> "", val |-> <<>>],
     [kind |-> "bare", q |-> "", val |-> <<"a">>]}
    \cup {it \in [kind : {"arg"}, q : {"", "'", "\""},
                    val : {<<>>, <<"a">>, <<",">>, <<"b", ",", "c">>}] :
             WellQuoted(it.q, it.val)}

Quoted(q, v) == IF q = "" THEN v ELSE <<q>> \o v \o <<q>>

RenderArg(key, q, val, sp) ==
    IF sp THEN <<" ">> \o key \o <<" ", "=", " ">> \o Quoted(q, val) \o <<" ">>
    ELSE key \o <<"=">> \o Quoted(q, val)

RenderSecond(it) ==
    CASE it.kind = "none" -> <<>>
      [] it.kind = "bare" -> <<",", " ">> \o it.val
      [] it.kind = "arg" -> <<",", " ">> \o RenderArg(s_dir_path, it.q, it.val, FALSE)

\* the text of a call [TOOL: name(body)]
RenderCall(name, body) == ToolOpen \o <<" ">> \o name \o <<"(">> \o body \o CallClose

\* descriptions of the generated calls
ParserInputs ==
    {[mode |-> "empty", name |-> nm, first |-> [key |-> <<>>, q |-> "", val |-> w, sp |-> FALSE],
      second |-> [kind |-> "none", q |-> "", val |-> <<>>], content |-> <<>>] :
        nm \in {s_read_file, s_write_file}, w \in {<<>>, <<" ">>, <<" ", "\n">>}}
    \cup
    {[mode |-> "simple", name |-> nm, first |-> a, second |-> b, content |-> <<>>] :
        nm \in {s_write_file}, a \in SimpleArgs(MaxValLen), b \in SecondItems}
    \cup
    {[mode |-> "triple", name |-> nm, first |-> a, second |-> [kind |-> tq, q |-> "", val |-> <<>>],
      content |-> c] :
        nm \in {s_write_file}, a \in SimpleArgs(1) \cup
            {[key |-> <<>>, q |-> "", val |-> <<>>, sp |-> FALSE]},
        tq \in {"single", "double"}, c \in SeqsUpTo(ContentChars, MaxValLen)}

TripleOf(kind) == IF kind = "single" THEN TripleSingle ELSE TripleDouble

RenderInput(d) ==
    CASE d.mode = "empty" -> RenderCall(d.name, d.first.val)
      [] d.mode = "simple" ->
            RenderCall(d.name,
                RenderArg(d.first.key, d.first.q, d.first.val, d.first.sp)
                \o RenderSecond(d.second))
      [] d.mode = "triple" ->
            RenderCall(d.name,
                (IF d.first.key = <<>> THEN <<>>
                 ELSE RenderArg(d.first.key, d.first.q, d.first.val, d.first.sp) \o <<",", " ">>)
                \o s_content \o <<"=">> \o TripleOf(d.second.kind) \o d.content
                \o TripleOf(d.second.kind))

(***************************************************************************)
(* Paths and the file system                                               *)
(*                                                                         *)
(* A canonical path is the sequence of its segments below "/".  The file   *)
(* system is the set of directories and the content of every file; one     *)
(* symbolic link exists and points out of the working directory.           *)
(***************************************************************************)
DotDot == <<".", ".">>

\* Path(input_path): absolute or not, and the segments ("" and "." dropped)
PathOf(str) ==
    [abs |-> str # <<>> /\ str[1] = "/",
     segs |-> SelectSeq(SplitAll(str, <<"/">>), LAMBDA g : g # <<>> /\ g # <<".">>)]

\* Path.cwd(): the process working directory, /w
Cwd == << <<"w">> >>

\* the directory outside the working directory, /o
OutsideDir == << <<"o">> >>

\* the symbolic link /w/l -> /o
Symlinks == (<< <<"w">>, <<"l">> >> :> OutsideDir)

Parent(p) == IF p = <<>> THEN p ELSE SubSeq(p, 1, Len(p) - 1)

\* one segment g after the canonical path cur
ResolveStep(cur, g) ==
    IF g = DotDot THEN Parent(cur)
    ELSE IF Append(cur, g) \in DOMAIN Symlinks THEN Symlinks[Append(cur, g)]
    ELSE Append(cur, g)

\* Path.resolve(): `..` collapsed and symbolic links followed, segment by segment
RECURSIVE ResolveFrom(_, _)
ResolveFrom(cur, segs) ==
    IF segs = <<>> THEN cur
    ELSE The({ResolveFrom(nxt, rest) : nxt \in {ResolveStep(cur, Head(segs))},
                                       rest \in {Tail(segs)}})

\* (Path.cwd() / p).resolve() for a relative path, p.resolve() for an absolute one
Resolve(str) ==
    LET p == PathOf(str)
    IN ResolveFrom(IF p.abs THEN <<>> ELSE Cwd, p.segs)

\* PurePath.is_relative_to(root): root is p or an ancestor of p
IsRelativeTo(p, root) ==
    Len(root) <= Len(p) /\ SubSeq(p, 1, Len(root)) = root

\* the interpreter has PurePath.is_relative_to (Python 3.9 and later; setup.py
\* admits 3.8, where the call raises AttributeError)
VARIABLE py39

\* str(p).startswith(str(root) + os.sep), on canonical paths: root is a proper
\* ancestor of p
StartsWithRootSep(p, root) == Len(root) < Len(p) /\ SubSeq(p, 1, Len(root)) = root

\* the ancestry test of _resolve_within_sandbox: is_relative_to, and the
\* string test in the except AttributeError branch
WithinRoot(p, root) == IF py39 THEN IsRelativeTo(p, root) ELSE StartsWithRootSep(p, root)

\* the containment test on the path as written: joined to the working
\* directory, `..` and symbolic links left alone
ContainedAsWritten(input_path, root) ==
    LET p == PathOf(input_path)
        q == (IF p.abs THEN <<>> ELSE Cwd) \o p.segs
    IN IF IsRelativeTo(q, root) THEN [ok |-> TRUE, path |-> q]
       ELSE [ok |-> FALSE, path |-> <<>>]

\* a resolver that joins a relative path to the sandbox root
ResolveWithinSandboxFromRoot(input_path, root) ==
    The({IF WithinRoot(p, root) THEN [ok |-> TRUE, path |-> p]
         ELSE [ok |-> FALSE, path |-> <<>>] :
         p \in {ResolveFrom(IF PathOf(input_path).abs THEN <<>> ELSE root,
                            PathOf(input_path).segs)}})

\* the path inside the sandbox, or None
ResolveWithinSandbox(input_path, root) ==
    The({IF WithinRoot(p, root) THEN [ok |-> TRUE, path |-> p]
         ELSE [ok |-> FALSE, path |-> <<>>] :
         p \in {Resolve(input_path)}})

\* p and all its ancestors
Prefixes(p) == {SubSeq(p, 1, k) : k \in 0..Len(p)}

IsFile(fs, p) == p \in DOMAIN fs.files

IsDir(fs, p) == p \in fs.dirs

\* Path.exists(): a file or a directory (nothing exists below a file)
Exists(fs, p) == IsFile(fs, p) \/ IsDir(fs, p)

\* Path.mkdir(parents=True, exist_ok=True): raises when p or an ancestor is a
\* file, and then creates nothing
Mkdirs(fs, p) ==
    IF \E q \in Prefixes(p) : IsFile(fs, q)
    THEN [fs |-> fs, exc |-> "FileExistsError"]
    ELSE [fs |-> [fs EXCEPT !.dirs = @ \cup Prefixes(p)], exc |-> ""]

\* every open made in append mode
WriteContentAppending(fs, p, content, append) ==
    IF IsDir(fs, p) THEN [fs |-> fs, exc |-> "IsADirectoryError"]
    ELSE IF ~IsDir(fs, Parent(p)) THEN [fs |-> fs, exc |-> "FileNotFoundError"]
    ELSE [fs |-> [fs EXCEPT !.files =
                     (p :> (IF IsFile(fs, p) THEN fs.files[p] \o content ELSE content)) @@ @],
          exc |-> ""]

\* open(path, 'w') / open(path, 'a') followed by f.write(content)
WriteContent(fs, p, content, append) ==
    IF IsDir(fs, p) THEN [fs |-> fs, exc |-> "IsADirectoryError"]
    ELSE IF ~IsDir(fs, Parent(p)) THEN [fs |-> fs, exc |-> "FileNotFoundError"]
    ELSE [fs |-> [fs EXCEPT !.files =
                     (p :> (IF append /\ IsFile(fs, p) THEN fs.files[p] \o content
                            ELSE content)) @@ @],
          exc |-> ""]

(***************************************************************************)
(* The escape-normalization heuristic                                      *)
(***************************************************************************)
Backslash == "\\"

\* str.replace(pat, rep): every non-overlapping occurrence, left to right
RECURSIVE Replace(_, _, _)
Replace(s, pat, rep) ==
    The({IF i = 0 THEN s
         ELSE SubSeq(s, 1, i - 1) \o rep
              \o The({Replace(rest, pat, rep) : rest \in {From(s, i + Len(pat))}}) :
         i \in {IndexOf(s, pat, 1)}})

\* str.count(pat): non-overlapping occurrences
RECURSIVE Count(_, _)
Count(s, pat) ==
    The({IF i = 0 THEN 0
         ELSE 1 + The({Count(rest, pat) : rest \in {From(s, i + Len(pat))}}) :
         i \in {IndexOf(s, pat, 1)}})

\* the backquote character (a string may hold one only before a quote)
Backtick == SubSeq("`'", 1, 1)

\* the marker of a fenced code block
Fence == <<Backtick, Backtick, Backtick>>

EscapedNewline == <<Backslash, "n">>

EscapedTab == <<Backslash, "t">>

\* format_indicators
FormatIndicators ==
    { <<"-","-","-">>,
      <<"{",Backslash>>,
      <<"i","m","p","o","r","t"," ">>,
      <<"#","i","n","c","l","u","d","e">>,
      <<"<","?","p","h","p">>,
      <<"<","!","D","O","C","T","Y","P","E">>,
      <<"f","u","n","c","t","i","o","n"," ">>,
      <<"d","e","f"," ">>,
      <<"c","l","a","s","s"," ">>,
      <<"p","u","b","l","i","c"," ","c","l","a","s","s">>,
      <<"i","n","t","e","r","f","a","c","e"," ">> }

\* metadata_indicators
MetadataIndicators ==
    { <<"#"," ">>,
      <<"/","/"," ">>,
      <<"/","*"," ">>,
      <<"-","-"," ">>,
      <<"T","O","D","O",":">>,
      <<"F","I","X","M","E",":">>,
      <<"N","O","T","E",":">> }

\* _should_unescape_model_output
ShouldUnescape(content) ==
    /\ (Contains(content, EscapedNewline) \/ Contains(content, EscapedTab))
    /\ ~Contains(content, Fence)
    /\ ~Contains(content, <<Backslash,"b","e","g","i","n","{">>)
    /\ ~Contains(content, <<Backslash,"e","n","d","{">>)
    /\ ~(Count(content, <<Backslash,Backslash>>) > 2)
    /\ \A ind \in FormatIndicators : ~Contains(content, ind)
    /\ \A ind \in MetadataIndicators : ~Contains(content, ind)
    /\ ~Contains(content, <<Backslash,"\"">>)
    /\ ~Contains(content, <<Backslash,"'">>)
    /\ ~Contains(content, <<Backslash,Backslash>>)

\* only the escaped newlines replaced
UnescapeNewlines(content) == Replace(content, EscapedNewline, <<"\n">>)

\* content.replace('\\n', '\n').replace('\\t', '\t')
Unescape(content) ==
    The({Replace(t, EscapedTab, <<"\t">>) : t \in {Replace(content, EscapedNewline, <<"\n">>)}})

\* a write that persists its argument as given
AsGiven(content) == content

\* the content a write persists
Normalized(content) == IF ShouldUnescape(content) THEN Unescape(content) ELSE content

(***************************************************************************)
(* Tool results                                                            *)
(*                                                                         *)
(* A result dict: `keys` are the keys present, the other fields their      *)
(* values (defaults for the absent ones).  The message and error texts are *)
(* kept by their fixed part.                                               *)
(***************************************************************************)
NoResult ==
    [success |-> FALSE, error |-> "", keys |-> {}, content |-> <<>>, stdout |-> <<>>,
     stderr |-> <<>>, message |-> "", bytes_written |-> 0, entries |-> {}]

\* {"success": False, "error": error}
Fail(error) ==
    [NoResult EXCEPT !.error = error, !.keys = {"success", "error"}]

\* {"success": True, "message": message}
Ok(message) ==
    [NoResult EXCEPT !.success = TRUE, !.message = message, !.keys = {"success", "message"}]

\* an optional string argument: None, or the string
None == [some |-> FALSE, s |-> <<>>]

Some(str) == [some |-> TRUE, s |-> str]

\* a number as numerator and denominator (a power of ten)
Num(n, d) == [n |-> n, d |-> d]

\* no process: the tool returned without reaching subprocess.run
NoProc ==
    [live |-> FALSE, tool |-> "", command |-> <<>>, argv |-> <<>>, cwd |-> <<>>,
     input |-> None, timeout |-> Num(0, 1)]

\* what a tool body did: the file system after it, its return value, the exception
\* it raised ("" for none), and the process it is blocked on, if any
Returned(fs, res) == [fs |-> fs, res |-> res, exc |-> "", proc |-> NoProc]

Raised(fs, exc) == [fs |-> fs, res |-> NoResult, exc |-> exc, proc |-> NoProc]

Spawned(fs, proc) == [fs |-> fs, res |-> NoResult, exc |-> "", proc |-> proc]

\* try: ... except Exception as e: return {"success": False, "error": str(e)}
Catch(o) == IF o.exc # "" THEN Returned(o.fs, Fail(o.exc)) ELSE o

\* a body whose exceptions nobody catches
NoCatch(o) == o

AccessDenied == "Access denied: path is outside sandbox"

(***************************************************************************)
(* File tools                                                              *)
(***************************************************************************)
tool_read_file_body(fs, root, file_path) ==
    The({IF ~r.ok THEN Returned(fs, Fail(AccessDenied))
         ELSE IF ~Exists(fs, r.path) THEN Returned(fs, Fail("File not found"))
         ELSE IF IsDir(fs, r.path) THEN Raised(fs, "IsADirectoryError")
         ELSE Returned(fs, [Ok("Successfully read") EXCEPT
                               !.content = fs.files[r.path],
                               !.keys = @ \cup {"content"}]) :
         r \in {ResolveWithinSandbox(file_path, root)}})

tool_read_file(fs, root, file_path) == Catch(tool_read_file_body(fs, root, file_path))

\* the common body of tool_write_file (append = FALSE) and tool_append_file
WriteBody(fs, root, file_path, content, append) ==
    The({IF ~r.ok THEN Returned(fs, Fail(AccessDenied))
         ELSE The({IF mk.exc # "" THEN Raised(mk.fs, mk.exc)
                   ELSE The({IF wr.exc # "" THEN Raised(wr.fs, wr.exc)
                             ELSE Returned(wr.fs,
                                      [Ok(IF append THEN "Successfully appended"
                                          ELSE "Successfully wrote")
                                          EXCEPT !.bytes_written = Len(text),
                                                 !.keys = @ \cup {"bytes_written"}]) :
                             wr \in {WriteContent(mk.fs, r.path, text, append)}}) :
                   mk \in {Mkdirs(fs, Parent(r.path))}, text \in {Normalized(content)}}) :
         r \in {ResolveWithinSandbox(file_path, root)}})

tool_write_file(fs, root, file_path, content) ==
    Catch(WriteBody(fs, root, file_path, content, FALSE))

tool_append_file(fs, root, file_path, content) ==
    Catch(WriteBody(fs, root, file_path, content, TRUE))

\* the names in a directory: files, directories and symbolic links
EntryNames(fs, p) ==
    {q[Len(q)] : q \in {c \in fs.dirs \cup (DOMAIN fs.files) \cup (DOMAIN Symlinks) :
                            c # <<>> /\ Parent(c) = p}}

tool_list_directory_body(fs, root, dir_path) ==
    The({IF ~r.ok THEN Returned(fs, Fail(AccessDenied))
         ELSE IF ~Exists(fs, r.path) \/ ~IsDir(fs, r.path)
         THEN Returned(fs, Fail("Directory not found"))
         ELSE Returned(fs, [Ok("Found entries") EXCEPT
                               !.entries = EntryNames(fs, r.path),
                               !.keys = @ \cup {"entries"}]) :
         r \in {ResolveWithinSandbox(dir_path, root)}})

tool_list_directory(fs, root, dir_path) ==
    Catch(tool_list_directory_body(fs, root, dir_path))

tool_create_directory_body(fs, root, dir_path) ==
    The({IF ~r.ok THEN Returned(fs, Fail(AccessDenied))
         ELSE The({IF mk.exc # "" THEN Raised(mk.fs, mk.exc)
                   ELSE Returned(mk.fs, Ok("Successfully created directory")) :
                   mk \in {Mkdirs(fs, r.path)}}) :
         r \in {ResolveWithinSandbox(dir_path, root)}})

tool_create_directory(fs, root, dir_path) ==
    Catch(tool_create_directory_body(fs, root, dir_path))

(***************************************************************************)
(* Timeout coercion: int(str) and float(str)                               *)
(***************************************************************************)
Digits == <<"0","1","2","3","4","5","6","7","8","9">>

IsDigit(c) == \E k \in 1..10 : Digits[k] = c

DigitVal(c) == (CHOOSE k \in 1..10 : Digits[k] = c) - 1

RECURSIVE Pow10(_)
Pow10(k) == IF k = 0 THEN 1 ELSE 10 * Pow10(k - 1)

\* the value of a run of decimal digits
RECURSIVE DecVal(_)
DecVal(ds) ==
    IF ds = <<>> THEN 0 ELSE 10 * DecVal(SubSeq(ds, 1, Len(ds) - 1)) + DigitVal(ds[Len(ds)])

AllDigits(ds) == \A k \in 1..Len(ds) : IsDigit(ds[k])

\* the sign and the rest of a numeric literal, blanks around it removed
Signed(str) ==
    LET t == Strip(str)
    IN IF t # <<>> /\ t[1] \in {"+", "-"}
       THEN [neg |-> t[1] = "-", body |-> Tail(t)]
       ELSE [neg |-> FALSE, body |-> t]

\* int(str): optional sign and decimal digits, ValueError otherwise
IntOfStr(str) ==
    LET g == Signed(str)
    IN IF g.body # <<>> /\ AllDigits(g.body)
       THEN [ok |-> TRUE, num |-> Num((IF g.neg THEN -1 ELSE 1) * DecVal(g.body), 1)]
       ELSE [ok |-> FALSE, num |-> Num(0, 1)]

\* the conversion that takes whole numbers only
FloatOfStrWhole(str) == IntOfStr(str)

\* float(str) for decimal literals: optional sign, digits with at most one point
\* and at least one digit, ValueError otherwise
FloatOfStr(str) ==
    LET g == Signed(str)
        dot == IndexOf(g.body, <<".">>, 1)
        ip == IF dot = 0 THEN g.body ELSE SubSeq(g.body, 1, dot - 1)
        fp == IF dot = 0 THEN <<>> ELSE From(g.body, dot + 1)
    IN IF AllDigits(ip) /\ AllDigits(fp) /\ Len(ip) + Len(fp) >= 1
       THEN [ok |-> TRUE,
             num |-> Num((IF g.neg THEN -1 ELSE 1) * (DecVal(ip) * Pow10(Len(fp)) + DecVal(fp)),
                         Pow10(Len(fp)))]
       ELSE [ok |-> FALSE, num |-> Num(0, 1)]

\* a timeout argument: a str, or a number
TStr(str) == [isstr |-> TRUE, s |-> str, num |-> Num(0, 1)]

TNum(num) == [isstr |-> FALSE, s |-> <<>>, num |-> num]

\* the default timeout=30 of both process tools
DefaultTimeout == TNum(Num(30, 1))

\* `if isinstance(timeout, str): timeout = conv(timeout)` then `timeout <= 0`
CoerceTimeout(timeout, conv) ==
    IF timeout.isstr /\ ~conv.ok THEN [err |-> "Timeout must be a valid number", num |-> Num(0, 1)]
    ELSE LET v == IF timeout.isstr THEN conv.num ELSE timeout.num
         IN IF v.n <= 0 THEN [err |-> "Timeout must be a positive number", num |-> v]
            ELSE [err |-> "", num |-> v]

(***************************************************************************)
(* shlex.split(command): POSIX word splitting, no shell interpretation     *)
(***************************************************************************)
\* st: tokens so far, the current token, whether a token is open, the open quote
\* ("" for none) and whether the previous character was an escaping backslash
\* the state after the character c
ShlexStep(st, c) ==
    LET add == [st EXCEPT !.cur = Append(@, c), !.open = TRUE, !.esc = FALSE]
    IN IF st.esc
       THEN IF st.q = "\"" /\ c \notin {"\"", Backslash}
            THEN [add EXCEPT !.cur = Append(Append(st.cur, Backslash), c)]
            ELSE add
       ELSE IF st.q = "'"
       THEN IF c = "'" THEN [st EXCEPT !.q = ""] ELSE add
       ELSE IF st.q = "\""
       THEN IF c = "\"" THEN [st EXCEPT !.q = ""]
            ELSE IF c = Backslash THEN [st EXCEPT !.esc = TRUE]
            ELSE add
       ELSE IF c \in Whitespace
       THEN [st EXCEPT !.toks = IF st.open THEN Append(@, st.cur) ELSE @,
                       !.cur = <<>>, !.open = FALSE]
       ELSE IF c \in {"'", "\""} THEN [st EXCEPT !.q = c, !.open = TRUE]
       ELSE IF c = Backslash THEN [st EXCEPT !.esc = TRUE, !.open = TRUE]
       ELSE add

RECURSIVE ShlexFrom(_, _, _)
ShlexFrom(s, i, st) ==
    IF i > Len(s)
    THEN IF st.q # "" \/ st.esc THEN [ok |-> FALSE, parts |-> <<>>]
         ELSE [ok |-> TRUE, parts |-> IF st.open THEN Append(st.toks, st.cur) ELSE st.toks]
    ELSE The({ShlexFrom(s, k, nx) : k \in {i + 1}, nx \in {ShlexStep(st, s[i])}})

\* ok = FALSE stands for the ValueError of an unclosed quote or dangling escape
ShlexSplit(command) ==
    ShlexFrom(command, 1, [toks |-> <<>>, cur |-> <<>>, open |-> FALSE, q |-> "", esc |-> FALSE])

(***************************************************************************)
(* Process tools                                                           *)
(***************************************************************************)
UpperLetters ==
    <<"A","B","C","D","E","F","G","H","I","J","K","L","M","N","O","P","Q","R","S","T",
      "U","V","W","X","Y","Z">>

LowerLetters ==
    <<"a","b","c","d","e","f","g","h","i","j","k","l","m","n","o","p","q","r","s","t",
      "u","v","w","x","y","z">>

\* str.lower()
Lower(str) ==
    The({[k \in 1..Len(t) |->
             IF \E j \in 1..26 : UpperLetters[j] = t[k]
             THEN LowerLetters[CHOOSE j \in 1..26 : UpperLetters[j] = t[k]]
             ELSE t[k]] :
         t \in {str}})

\* Path(token).name: the last segment, "" when there is none
BaseName(token) ==
    The({IF segs = <<>> THEN <<>> ELSE segs[Len(segs)] : segs \in {PathOf(token).segs}})

s_python == <<"p","y","t","h","o","n">>

s_python3 == <<"p","y","t","h","o","n","3">>

s_pip == <<"p","i","p">>

s_pytest == <<"p","y","t","e","s","t">>

s_echo == <<"e","c","h","o">>

s_git == <<"g","i","t">>

\* allowed = {"python", "python3", "pip", "pytest", "echo", "git"}
AllowedPrograms == {s_python, s_python3, s_pip, s_pytest, s_echo, s_git}

\* the default allowed_git_subcommands
AllowedGitSubcommands ==
    { <<"i","n","i","t">>, <<"c","o","n","f","i","g">>, <<"s","t","a","t","u","s">>,
      <<"a","d","d">>, <<"c","o","m","m","i","t">>, <<"d","i","f","f">>, <<"l","o","g">>,
      <<"r","e","s","t","o","r","e">> }

\* sys.executable
SysExecutable == <<"/","b","i","n","/","p","y">>

\* cwd == 'None' or cwd == 'none' (likewise input): the argument counts as absent
IsNoneWord(opt) ==
    opt.some /\ (opt.s = <<"N","o","n","e">> \/ opt.s = <<"n","o","n","e">>)

\* an argument passed on as given, the words None and none included
SentinelKept(opt) == opt

Sentinel(opt) == IF IsNoneWord(opt) THEN None ELSE opt

\* the guard without the git subcommand restriction
AllowListErrorNoGit(parts, gitAllowed) ==
    The({IF prog \notin AllowedPrograms THEN "Command is not allowed" ELSE "" :
         prog \in {Lower(BaseName(parts[1]))}})

\* the allow-list guard of tool_run_command on the split command: "" when the
\* command passes, the error otherwise (the messages without the quoted name)
AllowListError(parts, gitAllowed) ==
    The({IF prog \notin AllowedPrograms THEN "Command is not allowed"
         ELSE IF prog = s_git /\ (Len(parts) < 2 \/ (parts[2] # <<>> /\ parts[2][1] = "-"))
         THEN "git subcommand required"
         ELSE IF prog = s_git /\ parts[2] \notin gitAllowed
         THEN "git subcommand is not allowed"
         ELSE "" :
         prog \in {Lower(BaseName(parts[1]))}})

\* every allow-listed program spawned by its bare name
NormalizeEvery(parts) ==
    IF Lower(BaseName(parts[1])) \in {s_python, s_python3}
    THEN [parts EXCEPT ![1] = SysExecutable]
    ELSE [parts EXCEPT ![1] = Lower(BaseName(parts[1]))]

\* parts[0] = sys.executable for python and python3
NormalizeArgv(parts) ==
    IF Lower(BaseName(parts[1])) \in {s_python, s_python3}
    THEN [parts EXCEPT ![1] = SysExecutable] ELSE parts

\* tool_run_command up to subprocess.run
tool_run_command_body(fs, root, command, timeout, cwd, input) ==
    The({IF Strip(command) = <<>>
         THEN Returned(fs, Fail("Command must be a non-empty string"))
         ELSE IF t.err # "" THEN Returned(fs, Fail(t.err))
         ELSE IF ~sp.ok THEN Raised(fs, "ValueError")
         ELSE IF sp.parts = <<>> THEN Returned(fs, Fail("Empty command"))
         ELSE The({IF guard # "" THEN Returned(fs, Fail(guard))
                   ELSE IF cwd2.some /\ ~rcwd.ok
                   THEN Returned(fs, Fail("Access denied: cwd is outside sandbox"))
                   ELSE Spawned(fs, [live |-> TRUE, tool |-> "run_command",
                                     command |-> command,
                                     argv |-> NormalizeArgv(sp.parts),
                                     cwd |-> IF cwd2.some THEN rcwd.path ELSE Cwd,
                                     input |-> input2, timeout |-> t.num]) :
                   guard \in {AllowListError(sp.parts, AllowedGitSubcommands)},
                   rcwd \in {ResolveWithinSandbox(cwd2.s, root)}}) :
         t \in {CoerceTimeout(timeout, IntOfStr(timeout.s))},
         cwd2 \in {Sentinel(cwd)},
         input2 \in {Sentinel(input)},
         sp \in {ShlexSplit(command)}})

\* an execute_python that resolves file_path within the sandbox first
tool_execute_python_sandboxed(fs, root, code, file_path, timeout) ==
    IF file_path.some /\ ~ResolveWithinSandbox(file_path.s, root).ok
    THEN Returned(fs, Fail(AccessDenied))
    ELSE Spawned(fs, [live |-> TRUE, tool |-> "execute_python", command |-> <<>>,
                      argv |-> <<SysExecutable>>, cwd |-> Cwd, input |-> None,
                      timeout |-> timeout.num])

\* tool_execute_python up to subprocess.run
tool_execute_python_body(fs, root, code, file_path, timeout) ==
    LET t == The({CoerceTimeout(timeout, FloatOfStr(timeout.s))})
    IN IF t.err # "" THEN Returned(fs, Fail(t.err))
       ELSE IF file_path.some /\ file_path.s # <<>>
       THEN IF ~Exists(fs, Resolve(file_path.s)) THEN Returned(fs, Fail("File not found"))
            ELSE Spawned(fs, [live |-> TRUE, tool |-> "execute_python", command |-> <<>>,
                              argv |-> <<SysExecutable, file_path.s>>, cwd |-> Cwd,
                              input |-> None, timeout |-> t.num])
       ELSE IF code.some /\ code.s # <<>>
       THEN Spawned(fs, [live |-> TRUE, tool |-> "execute_python", command |-> <<>>,
                         argv |-> <<SysExecutable, <<"-","c">>, code.s>>, cwd |-> Cwd,
                         input |-> None, timeout |-> t.num])
       ELSE Returned(fs, Fail("Either 'code' or 'file_path' must be provided"))

\* how a spawned process can end: exit status 0, a non-zero exit status, the
\* timeout expiring, or the spawn itself failing with OSError
ProcessOutcomes == {"exit0", "exit1", "timeout", "oserror"}

\* what the process printed
StdoutOf(outcome) == IF outcome = "exit0" THEN <<"o","k">> ELSE <<"p">>

StderrOf(outcome) == IF outcome = "exit0" THEN <<>> ELSE <<"e","r","r">>

\* subprocess.run returning or raising, and what the tool makes of it
ProcessEnd(fs, proc, outcome) ==
    CASE outcome = "timeout" ->
            Returned(fs, Fail(IF proc.tool = "run_command" THEN "Command timed out"
                              ELSE "Execution timed out"))
      [] outcome = "oserror" -> Raised(fs, "OSError")
      [] OTHER ->
            Returned(fs, [NoResult EXCEPT
                !.success = (outcome = "exit0"),
                !.stdout = StdoutOf(outcome),
                !.stderr = StderrOf(outcome),
                !.message = IF proc.tool = "run_command" THEN "Command executed"
                            ELSE "Execution completed",
                !.keys = {"success", "stdout", "stderr", "message"}])

(***************************************************************************)
(* WorkingToolManager.execute_tool                                         *)
(***************************************************************************)
\* the tool_* methods getattr finds
ToolNames ==
    {s_read_file, s_write_file, s_append_file, s_list_directory, s_create_directory,
     s_execute_python, s_run_command}

\* the parameters without a default of each tool_* method
RequiredParams(name) ==
    CASE name \in {s_read_file} -> {s_file_path}
      [] name \in {s_write_file, s_append_file} -> {s_file_path, s_content}
      [] name \in {s_list_directory, s_create_directory} -> {s_dir_path}
      [] name = s_execute_python -> {}
      [] name = s_run_command -> {s_command}

\* the parameters with a default
OptionalParams(name) ==
    CASE name = s_execute_python -> {s_code, s_file_path, s_timeout}
      [] name = s_run_command -> {s_timeout, s_cwd, s_input}
      [] OTHER -> {}

\* tool_function(**tool_args) binds: every required parameter is given and no
\* other keyword than the method's parameters (TypeError otherwise)
Binds(name, args) ==
    /\ RequiredParams(name) \subseteq DOMAIN args
    /\ DOMAIN args \subseteq RequiredParams(name) \cup OptionalParams(name)

\* a keyword argument of the call, None when it is not given
Opt(args, key) == IF key \in DOMAIN args THEN Some(args[key]) ELSE None

TimeoutArg(args) == IF s_timeout \in DOMAIN args THEN TStr(args[s_timeout]) ELSE DefaultTimeout

\* result = tool_function(**tool_args): the call of the bound method
CallTool(fs, root, name, args) ==
    IF ~Binds(name, args) THEN Raised(fs, "TypeError")
    ELSE CASE name = s_read_file -> tool_read_file(fs, root, args[s_file_path])
           [] name = s_write_file ->
                 tool_write_file(fs, root, args[s_file_path], args[s_content])
           [] name = s_append_file ->
                 tool_append_file(fs, root, args[s_file_path], args[s_content])
           [] name = s_list_directory -> tool_list_directory(fs, root, args[s_dir_path])
           [] name = s_create_directory -> tool_create_directory(fs, root, args[s_dir_path])
           [] name = s_execute_python ->
                 Catch(tool_execute_python_body(fs, root, Opt(args, s_code),
                                                Opt(args, s_file_path), TimeoutArg(args)))
           [] name = s_run_command ->
                 Catch(tool_run_command_body(fs, root, args[s_command], TimeoutArg(args),
                                             Opt(args, s_cwd), Opt(args, s_input)))

\* execute_tool without its try/except around the call
ExecuteToolStartUnguarded(fs, root, name, args) ==
    IF name \notin ToolNames THEN Returned(fs, Fail("Tool not found"))
    ELSE NoCatch(CallTool(fs, root, name, args))

\* execute_tool up to the point where the tool returns, raises or blocks on a
\* process: unknown tool -> failed result; exceptions of the call -> failed result
ExecuteToolStart(fs, root, name, args) ==
    IF name \notin ToolNames THEN Returned(fs, Fail("Tool not found"))
    ELSE Catch(CallTool(fs, root, name, args))

\* execute_tool from the end of the process on: the tool's own except clauses
ExecuteToolEnd(fs, proc, outcome) == Catch(ProcessEnd(fs, proc, outcome))

\* execute_tool as one call, the process (if one is spawned) ending with `outcome`
ExecuteTool(fs, root, name, args, outcome) ==
    LET st == ExecuteToolStart(fs, root, name, args)
    IN IF st.proc.live THEN ExecuteToolEnd(st.fs, st.proc, outcome) ELSE st

(***************************************************************************)
(* Feedback synthesis and the final summary of generate_response           *)
(***************************************************************************)
\* a write shorter than this is answered with the corrective instruction
PlaceholderThreshold == 100

\* file content longer than this is truncated in the feedback
ContentLimit == 2000

\* the trailing window of conversation_history a completion sees
HistoryWindow == 6

\* max_autonomous_iterations when the configuration does not set it
DefaultMaxIterations == 2

\* an entry of the list parse_and_execute_tools returns:
\*   {"tool", "skipped": True} | {"tool", "result"} | {"tool", "error"}
SkippedEntry(tool) == [tool |-> tool, kind |-> "skipped", result |-> NoResult, error |-> ""]

ResultEntry(tool, res) == [tool |-> tool, kind |-> "result", result |-> res, error |-> ""]

ErrorEntry(tool, exc) == [tool |-> tool, kind |-> "error", result |-> NoResult, error |-> exc]

\* the entry recorded for what execute_tool did: its result, or the exception
\* that escaped it and was caught by the parser's own except clause
EntryOf(tool, o) == IF o.exc # "" THEN ErrorEntry(tool, o.exc) ELSE ResultEntry(tool, o.res)

\* result.get("result", {}).get("success")
EntrySuccess(e) == e.kind = "result" /\ e.result.success

\* result.get('result', {}).get('error', dflt)
EntryError(e, dflt) ==
    IF e.kind = "result" /\ "error" \in e.result.keys THEN e.result.error ELSE dflt

\* the feedback part without the check for short writes
FeedbackPartPlain(e) ==
    LET r == e.result
        base == [kind |-> "", tool |-> e.tool, n |-> 0, text |-> <<>>, truncated |-> FALSE,
                 error |-> ""]
    IN IF EntrySuccess(e)
       THEN IF "content" \in r.keys
            THEN [base EXCEPT !.kind = "file_content",
                              !.text = IF Len(r.content) > ContentLimit
                                       THEN SubSeq(r.content, 1, ContentLimit) ELSE r.content,
                              !.truncated = Len(r.content) > ContentLimit,
                              !.n = Len(r.content)]
            ELSE IF "stdout" \in r.keys
            THEN [base EXCEPT !.kind = "command_output", !.text = r.stdout]
            ELSE [base EXCEPT !.kind = "message",
                              !.error = IF "message" \in r.keys THEN r.message ELSE "Done"]
       ELSE [base EXCEPT !.kind = "failed", !.error = EntryError(e, "Unknown error")]

\* one part of the feedback turn, for one entry of tool_results
FeedbackPart(e) ==
    LET r == e.result
        base == [kind |-> "", tool |-> e.tool, n |-> 0, text |-> <<>>, truncated |-> FALSE,
                 error |-> ""]
    IN IF EntrySuccess(e)
       THEN IF e.tool = s_write_file /\ r.bytes_written < PlaceholderThreshold
            THEN [base EXCEPT !.kind = "too_short", !.n = r.bytes_written]
            ELSE IF "content" \in r.keys
            THEN [base EXCEPT !.kind = "file_content",
                              !.text = IF Len(r.content) > ContentLimit
                                       THEN SubSeq(r.content, 1, ContentLimit) ELSE r.content,
                              !.truncated = Len(r.content) > ContentLimit,
                              !.n = Len(r.content)]
            ELSE IF "stdout" \in r.keys
            THEN [base EXCEPT !.kind = "command_output", !.text = r.stdout]
            ELSE [base EXCEPT !.kind = "message",
                              !.error = IF "message" \in r.keys THEN r.message ELSE "Done"]
       ELSE [base EXCEPT !.kind = "failed", !.error = EntryError(e, "Unknown error")]

\* the feedback turn for the results of one generation
Feedback(tool_results) == [k \in 1..Len(tool_results) |-> FeedbackPart(tool_results[k])]

\* one line of the tool execution summary
SummaryLine(e) ==
    IF e.kind = "skipped" THEN [tool |-> e.tool, status |-> "Skipped", error |-> ""]
    ELSE IF EntrySuccess(e) THEN [tool |-> e.tool, status |-> "Success", error |-> ""]
    ELSE [tool |-> e.tool, status |-> "Failed", error |-> EntryError(e, "Failed")]

Summary(all_tool_results) ==
    [k \in 1..Len(all_tool_results) |-> SummaryLine(all_tool_results[k])]

\* sep.join(strs)
RECURSIVE Join(_, _)
Join(strs, sep) ==
    IF strs = <<>> THEN <<>>
    ELSE IF Len(strs) = 1 THEN strs[1]
    ELSE strs[1] \o sep \o The({Join(rest, sep) : rest \in {Tail(strs)}})

\* a role-tagged message; a feedback turn carries its parts
Message(role, text) == [role |-> role, text |-> text, parts |-> <<>>]

FeedbackMessage(parts) == [role |-> "user", text |-> <<>>, parts |-> parts]

SystemText == <<"s","y","s">>

\* the whole sequence
AllOf(seq, n) == seq

\* seq[-n:]
LastN(seq, n) == IF Len(seq) <= n THEN seq ELSE SubSeq(seq, Len(seq) - n + 1, Len(seq))

\* a gate whose default is no
AskConfirmClosed(reply) == reply = "y"

\* _ask_confirm(prompt, default=True) on the user's reply: y/yes is True, an
\* empty reply or a failing read gives the default, anything else is False
AskConfirm(reply) ==
    CASE reply = "y" -> TRUE
      [] reply = "" -> TRUE
      [] reply = "raise" -> TRUE
      [] OTHER -> FALSE

ConfirmReplies == {"y", "n", "", "raise"}

(***************************************************************************)
(* State                                                                   *)
(***************************************************************************)
VARIABLES
    pin,            \* parser specification: the description of the generated call
    ptext,          \* parser specification: the response text handed to the parser
    pcalls,         \* parser specification: the calls the parser extracted
    ppc,            \* parser specification: "input" before the parse, "parsed" after
    fs,             \* the file system: [dirs, files]
    sandbox_root,   \* WorkingToolManager.sandbox_root, a canonical path
    spawned,        \* the processes subprocess.run has started, oldest first
    tcall,          \* tool specification: the last direct call of a tool_* method
    tres,           \* tool specification: what that call returned
    tprev,          \* tool specification: the file system before that call
    tcount,         \* tool specification: number of calls made
    tlast,          \* file specification: the call before, and its result
    targ,           \* escape specification: the content the call is made with
    user_input,     \* interactive_mode: the line read at the prompt
    auto_confirm,   \* WorkingAIAssistant.auto_confirm
    max_iterations, \* performance.max_autonomous_iterations
    conversation_history,
    lpc,            \* where generate_response is: "start", "generating", "confirming",
                    \* "executing", "waiting" (in subprocess.run), "returned"
    messages,       \* the message list handed to the next completion
    iteration,      \* the loop variable of `for iteration in range(max_iterations)`
    all_responses,
    all_tool_results,
    calls,          \* the parsed calls of the current response
    idx,            \* the call parse_and_execute_tools is at (1-based)
    tool_results,   \* `results` of the running parse_and_execute_tools
    proc,           \* the process the current tool call is blocked on
    returned,       \* what generate_response returned
    ncompletions,   \* completions requested by this generate_response
    nexecuted       \* execute_tool calls made by this generate_response

parseVars == <<pin, ptext, pcalls, ppc>>

toolVars == <<tcall, tres, tprev, tcount, tlast, targ>>

sysVars == <<fs, sandbox_root, spawned, py39>>

loopVars ==
    <<user_input, auto_confirm, max_iterations, conversation_history, lpc, messages, iteration,
      all_responses, all_tool_results, calls, idx, tool_results, proc, returned,
      ncompletions, nexecuted>>

vars == <<parseVars, toolVars, sysVars, loopVars>>

\* /, /w and /o exist; /o/s is a file outside the working directory
InitialFs ==
    [dirs |-> {<<>>, Cwd, OutsideDir},
     files |-> (Append(OutsideDir, <<"s">>) :> <<"k","e","y">>)]

NoReturn == [kind |-> "none", text |-> <<>>, summary |-> <<>>]

NoCall ==
    [tool |-> <<>>, path |-> <<>>, content |-> <<>>, command |-> <<>>,
     timeout |-> DefaultTimeout, cwd |-> None, input |-> None, code |-> None,
     file_path |-> None]

IdleParse == pin = <<>> /\ ptext = <<>> /\ pcalls = <<>> /\ ppc = "off"

\* no earlier call
NoLast == [call |-> NoCall, res |-> NoResult, prev |-> InitialFs]

IdleTools ==
    /\ tcall = NoCall /\ tres = NoResult /\ tprev = InitialFs /\ tcount = 0
    /\ tlast = NoLast /\ targ = <<>>

IdleSys == fs = InitialFs /\ sandbox_root = Cwd /\ spawned = <<>> /\ py39 = TRUE

IdleLoop ==
    /\ user_input = <<>>
    /\ auto_confirm = FALSE
    /\ max_iterations = DefaultMaxIterations
    /\ conversation_history = <<>>
    /\ lpc = "off"
    /\ messages = <<>>
    /\ iteration = 0
    /\ all_responses = <<>>
    /\ all_tool_results = <<>>
    /\ calls = <<>>
    /\ idx = 0
    /\ tool_results = <<>>
    /\ proc = NoProc
    /\ returned = NoReturn
    /\ ncompletions = 0
    /\ nexecuted = 0

(***************************************************************************)
(* Parser specification: the parser applied to one generated response      *)
(***************************************************************************)
InitParse ==
    /\ pin \in ParserInputs
    /\ ptext = RenderInput(pin)
    /\ pcalls = <<>>
    /\ ppc = "input"
    /\ IdleTools /\ IdleSys /\ IdleLoop

\* the parsing part of parse_and_execute_tools on the response text
ParseResponse ==
    /\ ppc = "input"
    /\ pcalls' = ParseCalls(ptext)
    /\ ppc' = "parsed"
    /\ UNCHANGED <<pin, ptext, toolVars, sysVars, loopVars>>

NextParse == ParseResponse

SpecParse == InitParse /\ [][NextParse]_vars

(***************************************************************************)
(* Tool specification: direct calls of the tool_* methods of one           *)
(* WorkingToolManager, as the functional tests make them                   *)
(***************************************************************************)
\* number of tool calls in one behaviour
MaxCalls == 2

\* the sandbox roots a configuration may name: the working directory (the
\* default) and the directory d below it
SandboxRoots == {Cwd, Append(Cwd, <<"d">>)}

\* path arguments: inside the working directory, relative and absolute; the
\* working directory itself; and ways out of it (`..`, an absolute path, the
\* symbolic link l, down and up again, a path that starts with /w/); and a
\* sibling of the directory d whose name starts with d
ToolPaths ==
    { <<"f">>,
      <<"d","2","/","f">>,
      <<"d">>,
      <<"d","/","f">>,
      <<"/","w","/","d","/","g">>,
      <<".">>,
      <<".",".","/","o","/","s">>,
      <<"/","o","/","n","/","x">>,
      <<"l","/","x">>,
      <<"d","/",".",".","/",".",".","/","o">>,
      <<"/","w","/",".",".","/","o","/","s">> }

\* contents: plain text, and text with a literal backslash-n
ToolContents == { <<"h","i">>, <<"a",Backslash,"n","b">> }

\* commands of run_command
ToolCommands ==
    { <<"e","c","h","o"," ","h","i">>,
      <<"c","u","r","l"," ","x">>,
      <<"l","s"," ","-","l","a">>,
      <<"g","i","t"," ","p","u","s","h">>,
      <<"g","i","t"," ","s","t","a","t","u","s">>,
      <<"g","i","t">>,
      <<"g","i","t"," ","-","C"," ","x"," ","p","u","s","h">>,
      <<"G","I","T"," ","l","o","g">>,
      <<"p","y","t","h","o","n"," ","-","c"," ","x">>,
      <<"/","o","/","E","c","h","o"," ","h","i">>,
      <<"/","o","/","c","u","r","l">>,
      <<"/","o","/","P","y","t","h","o","n","3"," ","x">>,
      <<"e","c","h","o"," ","'","a">>,
      <<"e","c","h","o"," ","a",";"," ","c","u","r","l"," ","b">>,
      <<" ">> }

\* timeout arguments: the default, numbers, and strings
ToolTimeouts ==
    { DefaultTimeout, TNum(Num(5, 1)), TNum(Num(0, 1)), TNum(Num(1, 1)),
      TStr(<<"1">>), TStr(<<"2">>), TStr(<<"1",".","5">>), TStr(<<"0">>), TStr(<<"-","1">>),
      TStr(<<"a","b","c">>) }

ToolCwds ==
    { None, Some(<<"N","o","n","e">>), Some(<<"n","o","n","e">>), Some(<<"d">>),
      Some(<<".",".","/","o">>) }

ToolInputs == { None, Some(<<"N","o","n","e">>), Some(<<"h","i">>) }

RunCall(command, timeout, cwd, input) ==
    [command |-> command, timeout |-> timeout, cwd |-> cwd, input |-> input]

c_echo == <<"e","c","h","o"," ","h","i">>

c_curl == <<"c","u","r","l"," ","x">>

\* run_command calls: every command with the other arguments at their
\* defaults, and an allowed and a forbidden command with every timeout,
\* working directory and input
RunCommandCalls ==
    {RunCall(c, DefaultTimeout, None, None) : c \in ToolCommands}
    \cup {RunCall(c, t, None, None) : c \in {c_echo, c_curl}, t \in ToolTimeouts}
    \cup {RunCall(c, DefaultTimeout, d, None) : c \in {c_echo, c_curl}, d \in ToolCwds}
    \cup {RunCall(c, DefaultTimeout, None, i) : c \in {c_echo, c_curl}, i \in ToolInputs}

ToolCodes == { None, Some(<<"x">>) }

ToolScripts ==
    { None, Some(<<"f">>), Some(<<"/","o","/","s">>), Some(<<".",".","/","o","/","s">>) }

\* execute_python calls: every pairing of code and file_path, and code with
\* every timeout
ExecutePythonCalls ==
    {[code |-> c, file_path |-> f, timeout |-> DefaultTimeout] :
        c \in ToolCodes, f \in ToolScripts}
    \cup {[code |-> Some(<<"x">>), file_path |-> None, timeout |-> t] : t \in ToolTimeouts}

InitTools ==
    /\ fs = InitialFs
    /\ sandbox_root \in SandboxRoots
    /\ py39 \in BOOLEAN
    /\ spawned = <<>>
    /\ IdleTools
    /\ IdleParse
    /\ IdleLoop

\* a direct call by the caller, who holds no earlier result: o is what the
\* method did, started the processes it ran
Called(call, o, started) ==
    /\ tcall = NoCall
    /\ tcount < MaxCalls
    /\ tcount' = tcount + 1
    /\ tcall' = call
    /\ tprev' = fs
    /\ \E r \in {o} : fs' = r.fs /\ tres' = r.res
    /\ spawned' = started
    /\ UNCHANGED <<sandbox_root, py39, tlast, targ, parseVars, loopVars>>

\* the caller is done with the result dictionary
ResultDropped ==
    /\ tcall # NoCall
    /\ tcall' = NoCall
    /\ tres' = NoResult
    /\ tprev' = fs
    /\ spawned' = <<>>
    /\ UNCHANGED <<fs, sandbox_root, py39, tcount, tlast, targ, parseVars, loopVars>>

ReadFile ==
    \E path \in ToolPaths :
        Called([NoCall EXCEPT !.tool = s_read_file, !.path = path],
               tool_read_file(fs, sandbox_root, path), <<>>)

WriteFile ==
    \E path \in ToolPaths, content \in ToolContents :
        Called([NoCall EXCEPT !.tool = s_write_file, !.path = path, !.content = content],
               tool_write_file(fs, sandbox_root, path, content), <<>>)

AppendFile ==
    \E path \in ToolPaths, content \in ToolContents :
        Called([NoCall EXCEPT !.tool = s_append_file, !.path = path, !.content = content],
               tool_append_file(fs, sandbox_root, path, content), <<>>)

ListDirectory ==
    \E path \in ToolPaths :
        Called([NoCall EXCEPT !.tool = s_list_directory, !.path = path],
               tool_list_directory(fs, sandbox_root, path), <<>>)

CreateDirectory ==
    \E path \in ToolPaths :
        Called([NoCall EXCEPT !.tool = s_create_directory, !.path = path],
               tool_create_directory(fs, sandbox_root, path), <<>>)

\* a process tool as one call: the body up to subprocess.run, then the process
\* ending in one of its outcomes and the method's except clauses
ProcessCall(call, start) ==
    /\ tcall = NoCall
    /\ \E st \in {start} :
          IF st.proc.live
          THEN \E outcome \in ProcessOutcomes :
                  Called(call, Catch(ProcessEnd(st.fs, st.proc, outcome)), <<st.proc>>)
          ELSE Called(call, Catch(st), <<>>)

ExecutePython ==
    \E c \in ExecutePythonCalls :
        ProcessCall([NoCall EXCEPT !.tool = s_execute_python, !.code = c.code,
                                   !.file_path = c.file_path, !.timeout = c.timeout],
                    tool_execute_python_body(fs, sandbox_root, c.code, c.file_path,
                                             c.timeout))

RunCommand ==
    \E c \in RunCommandCalls :
        ProcessCall([NoCall EXCEPT !.tool = s_run_command, !.command = c.command,
                                   !.timeout = c.timeout, !.cwd = c.cwd, !.input = c.input],
                    tool_run_command_body(fs, sandbox_root, c.command, c.timeout, c.cwd,
                                          c.input))

NextTools ==
    \/ ReadFile
    \/ WriteFile
    \/ AppendFile
    \/ ListDirectory
    \/ CreateDirectory
    \/ ExecutePython
    \/ RunCommand
    \/ ResultDropped

SpecTools == InitTools /\ [][NextTools]_vars

(***************************************************************************)
(* File specification: the file tools called one after another by a caller *)
(* that keeps the result of the call before, in a working directory that   *)
(* already holds a file                                                    *)
(***************************************************************************)
\* the working directory with the file /w/e in it
SeededFs ==
    [InitialFs EXCEPT !.files = (Append(Cwd, <<"e">>) :> <<"o","l","d">>) @@ @]

\* path arguments: a new file, a file below directories that do not exist yet,
\* the same place written absolute, the working directory itself, the
\* directory d, the existing file e, a path through that file, and a way out
FilePaths ==
    { <<"f">>,
      <<"d","/","c","/","f">>,
      <<"/","w","/","d","/","g">>,
      <<".">>,
      <<"d">>,
      <<"e">>,
      <<"e","/","x">>,
      <<".",".","/","o","/","s">> }

\* contents: plain text, the empty string, and text with a literal backslash-n
FileContents == ToolContents \cup { <<>> }

InitFiles ==
    /\ fs = SeededFs
    /\ sandbox_root \in SandboxRoots
    /\ py39 \in BOOLEAN
    /\ spawned = <<>>
    /\ tcall = NoCall /\ tres = NoResult /\ tprev = SeededFs /\ tcount = 0
    /\ tlast = NoLast /\ targ = <<>>
    /\ IdleParse
    /\ IdleLoop

\* the caller keeps the result and goes on to its next call
ResultKept ==
    /\ tcall # NoCall
    /\ tcount < MaxCalls
    /\ tlast' = [call |-> tcall, res |-> tres, prev |-> tprev]
    /\ tcall' = NoCall
    /\ tres' = NoResult
    /\ tprev' = fs
    /\ UNCHANGED <<fs, sandbox_root, py39, spawned, tcount, targ, parseVars, loopVars>>

FilesRead ==
    \E path \in FilePaths :
        Called([NoCall EXCEPT !.tool = s_read_file, !.path = path],
               tool_read_file(fs, sandbox_root, path), <<>>)

FilesWrite ==
    \E path \in FilePaths, content \in FileContents :
        Called([NoCall EXCEPT !.tool = s_write_file, !.path = path, !.content = content],
               tool_write_file(fs, sandbox_root, path, content), <<>>)

FilesAppend ==
    \E path \in FilePaths, content \in FileContents :
        Called([NoCall EXCEPT !.tool = s_append_file, !.path = path, !.content = content],
               tool_append_file(fs, sandbox_root, path, content), <<>>)

FilesList ==
    \E path \in FilePaths :
        Called([NoCall EXCEPT !.tool = s_list_directory, !.path = path],
               tool_list_directory(fs, sandbox_root, path), <<>>)

FilesCreate ==
    \E path \in FilePaths :
        Called([NoCall EXCEPT !.tool = s_create_directory, !.path = path],
               tool_create_directory(fs, sandbox_root, path), <<>>)

NextFiles ==
    \/ FilesRead
    \/ FilesWrite
    \/ FilesAppend
    \/ FilesList
    \/ FilesCreate
    \/ ResultKept

SpecFiles == InitFiles /\ [][NextFiles]_vars

(***************************************************************************)
(* Escape specification: one write_file or append_file call with a content *)
(* put together from the tokens the heuristic looks for                    *)
(***************************************************************************)
\* the heuristic's tokens, the comment markers also without their space, and
\* plain filler
EscapeTokens ==
    { <<>>, <<"a">>, EscapedNewline, EscapedTab,
      <<"#">>, <<"/","/">>, <<"/","*">>, <<"-","-">>,
      Fence,
      <<Backslash,"b","e","g","i","n","{">>,
      <<Backslash,"e","n","d","{">>,
      <<Backslash,Backslash>>,
      <<Backslash,"\"">>,
      <<Backslash,"'">> }
    \cup FormatIndicators \cup MetadataIndicators

\* escaped backslashes three times over, then an escaped newline
ManyBackslashes == [i \in 1..6 |-> Backslash] \o EscapedNewline

\* contents: two tokens one after the other
EscapeContents == {a \o b : a \in EscapeTokens, b \in EscapeTokens} \cup {ManyBackslashes}

\* the file written: a new one and one that holds text
EscapePaths == { <<"f">>, <<"e">> }

InitEscape ==
    /\ fs = SeededFs
    /\ sandbox_root = Cwd
    /\ py39 \in BOOLEAN
    /\ spawned = <<>>
    /\ tcall = NoCall /\ tres = NoResult /\ tprev = SeededFs /\ tcount = 0
    /\ tlast = NoLast
    /\ targ \in EscapeContents
    /\ IdleParse
    /\ IdleLoop

EscapeWrite ==
    \E path \in EscapePaths :
        Called([NoCall EXCEPT !.tool = s_write_file, !.path = path, !.content = targ],
               tool_write_file(fs, sandbox_root, path, targ), <<>>)

EscapeAppend ==
    \E path \in EscapePaths :
        Called([NoCall EXCEPT !.tool = s_append_file, !.path = path, !.content = targ],
               tool_append_file(fs, sandbox_root, path, targ), <<>>)

NextEscape ==
    \/ EscapeWrite
    \/ EscapeAppend

SpecEscape == InitEscape /\ [][NextEscape]_vars

(***************************************************************************)
(* Loop specification: one generate_response call (single-prompt mode),    *)
(* the model's completions drawn from a menu of responses                  *)
(***************************************************************************)
\* largest max_autonomous_iterations a configuration sets
MaxBudget == 2

\* the user's prompt
Prompt == <<"g","o">>

\* c repeated n times
Rep(c, n) == [i \in 1..n |-> c]

\* the body file_path='f', content='...'
WriteArgs(content) ==
    RenderArg(s_file_path, "'", <<"f">>, FALSE) \o <<",", " ">>
    \o RenderArg(s_content, "'", content, FALSE)

GenCall(name, body) == [name |-> name, body |-> body]

s_nope == <<"n","o","p","e">>

\* a keyword no tool has
s_mode == <<"m","o","d","e">>

\* the literal line1\nline2 as the model writes it
ChainContent == <<"l","i","n","e","1",Backslash,"n","l","i","n","e","2">>

\* a response of the model: leading prose, calls, trailing text
Response(id, pre, gcalls, post) == [id |-> id, pre |-> pre, gcalls |-> gcalls, post |-> post]

\* the responses the model may give: prose only; a call that is never closed;
\* writes of 29 and of 150 characters; a write of 100 characters of which two
\* are an escaped newline; a command followed by an unknown tool; a call with a
\* keyword its tool does not have; a call with all its keywords and one more,
\* followed by a call with a keyword missing; a directory created, a file
\* written into it with triple-quoted content, and the file read
Responses ==
    { Response("prose", <<" ","o","k">>, <<>>, <<"\n">>),
      Response("unclosed", ToolOpen \o <<" ">> \o s_read_file \o <<"(">>, <<>>, <<>>),
      Response("short", <<>>, <<GenCall(s_write_file, WriteArgs(Rep("x", 29)))>>, <<>>),
      Response("long", <<"o","k"," ">>,
               <<GenCall(s_write_file, WriteArgs(Rep("x", 150)))>>, <<>>),
      Response("escaped", <<>>,
               <<GenCall(s_write_file, WriteArgs(Rep("x", 98) \o EscapedNewline))>>, <<>>),
      Response("command", <<>>,
               <<GenCall(s_run_command, RenderArg(s_command, "'", c_echo, FALSE)),
                 GenCall(s_nope, <<>>)>>, <<" ">>),
      Response("keyword", <<>>,
               <<GenCall(s_read_file, RenderArg(s_dir_path, "'", <<"f">>, FALSE))>>, <<>>),
      Response("chain", <<>>,
               <<GenCall(s_create_directory, RenderArg(s_dir_path, "'", <<"d">>, FALSE)),
                 GenCall(s_write_file,
                         RenderArg(s_file_path, "'", <<"d","/","x">>, FALSE) \o <<",", " ">>
                         \o s_content \o <<"=">> \o TripleSingle \o ChainContent
                         \o TripleSingle),
                 GenCall(s_read_file, RenderArg(s_file_path, "'", <<"d","/","x">>, FALSE))>>,
               <<>>),
      Response("extras", <<>>,
               <<GenCall(s_create_directory,
                         RenderArg(s_dir_path, "'", <<"n">>, FALSE) \o <<",", " ">>
                         \o RenderArg(s_mode, "'", <<"x">>, FALSE)),
                 GenCall(s_write_file, RenderArg(s_file_path, "'", <<"f">>, FALSE))>>,
               <<>>) }

\* the text of a response
ResponseText(r) ==
    r.pre \o Join([k \in 1..Len(r.gcalls) |-> RenderCall(r.gcalls[k].name, r.gcalls[k].body)],
                  <<"\n">>) \o r.post

\* a loop without the test for an empty result list
NeverEmpty(results) == FALSE

\* `if not tool_results: break`
NoTools(results) == results = <<>>

\* a loop without the budget test before the feedback
BudgetNeverSpent(iter, budget) == FALSE

\* the budget test taken one iteration late
BudgetSpentLate(iter, budget) == iter >= budget

\* `if iteration >= max_iterations - 1: break`
BudgetSpent(iter, budget) == iter >= budget - 1

\* the position of the next call: the confirmation unless auto_confirm is set
NextCallPc == IF auto_confirm THEN "executing" ELSE "confirming"

\* the variables the end of a call may change
recVars ==
    <<tool_results, idx, lpc, messages, iteration, all_tool_results, conversation_history,
      returned>>

\* a return that records the exchange only when there was a response
ReturnGuarded(responses, results) ==
    LET final_response == Join(responses, <<"\n", "\n">>)
    IN /\ conversation_history' =
              IF responses = <<>> THEN conversation_history
              ELSE conversation_history
                   \o <<Message("user", Prompt), Message("assistant", final_response)>>
       /\ returned' = [kind |-> "ok", text |-> final_response, summary |-> Summary(results)]
       /\ lpc' = "returned"

\* the end of generate_response: the combined response, the two history
\* entries, the tool execution summary, the return
Return(responses, results) ==
    LET final_response == Join(responses, <<"\n", "\n">>)
    IN /\ conversation_history' =
              conversation_history
              \o <<Message("user", Prompt), Message("assistant", final_response)>>
       /\ returned' = [kind |-> "ok", text |-> final_response, summary |-> Summary(results)]
       /\ lpc' = "returned"

\* the loop body after parse_and_execute_tools returned `results`
AfterParse(results, responses) ==
    /\ tool_results' = results
    /\ IF NoTools(results)
       THEN /\ Return(responses, all_tool_results)
            /\ UNCHANGED <<all_tool_results, messages, iteration>>
       ELSE /\ all_tool_results' = all_tool_results \o results
            /\ IF BudgetSpent(iteration, max_iterations)
               THEN /\ Return(responses, all_tool_results \o results)
                    /\ UNCHANGED <<messages, iteration>>
               ELSE /\ messages' = messages
                                   \o <<Message("assistant", responses[Len(responses)]),
                                        FeedbackMessage(Feedback(results))>>
                    /\ IF iteration + 1 < max_iterations
                       THEN /\ iteration' = iteration + 1
                            /\ lpc' = "generating"
                            /\ UNCHANGED <<conversation_history, returned>>
                       ELSE /\ Return(responses, all_tool_results \o results)
                            /\ UNCHANGED iteration

\* results.append(e), then the next call or the return of the parser
Recorded(e) ==
    \E results \in {Append(tool_results, e)} :
        IF idx < Len(calls)
        THEN /\ tool_results' = results
             /\ idx' = idx + 1
             /\ lpc' = NextCallPc
             /\ UNCHANGED <<messages, iteration, all_tool_results, conversation_history,
                            returned>>
        ELSE /\ UNCHANGED idx
             /\ AfterParse(results, all_responses)

InitLoop ==
    /\ fs = InitialFs
    /\ sandbox_root = Cwd
    /\ spawned = <<>>
    /\ py39 \in BOOLEAN
    /\ IdleTools
    /\ IdleParse
    /\ user_input = <<>>
    /\ auto_confirm \in BOOLEAN
    /\ max_iterations \in -1..MaxBudget
    /\ conversation_history = <<>>
    /\ lpc = "start"
    /\ messages = <<>>
    /\ iteration = 0
    /\ all_responses = <<>>
    /\ all_tool_results = <<>>
    /\ calls = <<>>
    /\ idx = 0
    /\ tool_results = <<>>
    /\ proc = NoProc
    /\ returned = NoReturn
    /\ ncompletions = 0
    /\ nexecuted = 0

\* generate_response up to the first completion
StartGenerate ==
    /\ lpc = "start"
    /\ messages' = <<Message("system", SystemText), Message("user", Prompt)>>
                   \o LastN(conversation_history, HistoryWindow)
    /\ IF 0 < max_iterations
       THEN lpc' = "generating" /\ UNCHANGED <<conversation_history, returned>>
       ELSE Return(<<>>, <<>>)
    /\ UNCHANGED <<user_input, auto_confirm, max_iterations, iteration, all_responses,
                   all_tool_results,
                   calls, idx, tool_results, proc, ncompletions, nexecuted, sysVars, toolVars,
                   parseVars>>

\* create_chat_completion returns a response; the parser finds its calls.
\* (ai_response and found are bound by \E so that they are computed once.)
CompleteWith(menu) ==
    /\ lpc = "generating"
    /\ \E r \in menu :
          \E ai_response \in {Strip(ResponseText(r))} :
              \E found \in {ParseCalls(ai_response)} :
                  /\ all_responses' = Append(all_responses, ai_response)
                  /\ calls' = found
                  /\ IF found = <<>>
                     THEN /\ idx' = 0
                          /\ AfterParse(<<>>, Append(all_responses, ai_response))
                     ELSE /\ idx' = 1
                          /\ tool_results' = <<>>
                          /\ lpc' = NextCallPc
                          /\ UNCHANGED <<messages, iteration, all_tool_results,
                                         conversation_history, returned>>
    /\ ncompletions' = ncompletions + 1
    /\ UNCHANGED <<user_input, auto_confirm, max_iterations, proc, nexecuted, sysVars, toolVars,
                   parseVars>>

Complete == CompleteWith(Responses)

\* an except clause that records the prompt before it returns
CompleteRaisesRecorded ==
    /\ lpc = "generating"
    /\ ncompletions' = ncompletions + 1
    /\ returned' = [kind |-> "error", text |-> <<>>, summary |-> <<>>]
    /\ lpc' = "returned"
    /\ conversation_history' = Append(conversation_history, Message("user", Prompt))
    /\ UNCHANGED <<user_input, auto_confirm, max_iterations, messages, iteration,
                   all_responses, all_tool_results, calls, idx, tool_results, proc,
                   nexecuted, sysVars, toolVars, parseVars>>

\* create_chat_completion raises: the except clause of generate_response
CompleteRaises ==
    /\ lpc = "generating"
    /\ ncompletions' = ncompletions + 1
    /\ returned' = [kind |-> "error", text |-> <<>>, summary |-> <<>>]
    /\ lpc' = "returned"
    /\ UNCHANGED <<user_input, auto_confirm, max_iterations, conversation_history, messages,
                   iteration,
                   all_responses, all_tool_results, calls, idx, tool_results, proc,
                   nexecuted, sysVars, toolVars, parseVars>>

\* the user answers the confirmation of the call at idx; with Rich, a failing
\* read raises out of _ask_confirm into the parser's except clause
ConfirmWith(reply, rich) ==
    /\ lpc = "confirming"
    /\ IF rich /\ reply = "raise"
       THEN Recorded(ErrorEntry(calls[idx].tool, "EOFError"))
       ELSE IF AskConfirm(reply)
       THEN /\ lpc' = "executing"
            /\ UNCHANGED <<tool_results, idx, messages, iteration, all_tool_results,
                           conversation_history, returned>>
       ELSE Recorded(SkippedEntry(calls[idx].tool))
    /\ UNCHANGED <<user_input, auto_confirm, max_iterations, all_responses, calls, proc,
                   ncompletions, nexecuted, sysVars, toolVars, parseVars>>

Confirm == \E reply \in ConfirmReplies, rich \in BOOLEAN : ConfirmWith(reply, rich)

\* execute_tool on the call at idx, up to its return or to subprocess.run
\* (st is bound by \E so that it is computed once)
Execute ==
    /\ lpc = "executing"
    /\ nexecuted' = nexecuted + 1
    /\ \E st \in {ExecuteToolStart(fs, sandbox_root, calls[idx].tool, calls[idx].args)} :
          /\ fs' = st.fs
          /\ IF st.proc.live
             THEN /\ proc' = st.proc
                  /\ spawned' = Append(spawned, st.proc)
                  /\ lpc' = "waiting"
                  /\ UNCHANGED <<tool_results, idx, messages, iteration, all_tool_results,
                                 conversation_history, returned>>
             ELSE /\ Recorded(EntryOf(calls[idx].tool, st))
                  /\ UNCHANGED <<proc, spawned>>
    /\ UNCHANGED <<user_input, auto_confirm, max_iterations, all_responses, calls, ncompletions,
                   sandbox_root, py39, toolVars, parseVars>>

\* subprocess.run returns or raises; execute_tool returns
ProcessEnds ==
    /\ lpc = "waiting"
    /\ \E outcome \in ProcessOutcomes :
          \E o \in {ExecuteToolEnd(fs, proc, outcome)} :
              /\ fs' = o.fs
              /\ Recorded(EntryOf(calls[idx].tool, o))
    /\ proc' = NoProc
    /\ UNCHANGED <<user_input, auto_confirm, max_iterations, all_responses, calls, ncompletions,
                   nexecuted, sandbox_root, py39, spawned, toolVars, parseVars>>

Next ==
    \/ StartGenerate
    \/ CompleteRaises
    \/ Complete
    \/ Confirm
    \/ Execute
    \/ ProcessEnds

Spec == InitLoop /\ [][Next]_vars

\* every completion and every tool call returns, every confirmation is answered
FairSpec == Spec /\ WF_vars(Next)

(***************************************************************************)
(* Session specification: interactive_mode, the user typing prompts and    *)
(* commands, each prompt answered by one generate_response call            *)
(***************************************************************************)
\* prompts are read as long as the history holds no more exchanges than this
MaxExchanges == 4

Chars(str) == [i \in 1..Len(str) |-> SubSeq(str, i, i)]

\* the lines the user types: a prompt, commands in both spellings and cases,
\* a command with an argument, an unknown command, words of the loop, nothing
UserLines ==
    { Prompt, Chars("/clear"), Chars("/CLEAR x"), Chars("/clea"), Chars("/auto"),
      Chars("auto"), Chars("help"), Chars("Quit"), <<>> }

\* command.split()[0] of a line that starts with a slash
FirstWord(line) ==
    The({IF i = 0 THEN line ELSE SubSeq(line, 1, i - 1) : i \in {IndexOf(line, <<" ">>, 1)}})

\* the responses of the model in a session: prose, and a short write
SessionResponses == {r \in Responses : r.id \in {"prose", "short"}}

\* the locals of a generate_response call
callVars ==
    <<messages, iteration, all_responses, all_tool_results, calls, idx, tool_results,
      returned, ncompletions, nexecuted>>

\* handle_command: /clear empties the history, /auto toggles auto_confirm;
\* the other commands touch the context files or print
HandleCommand(command) ==
    \E cmd \in {Lower(FirstWord(command))} :
        /\ conversation_history' =
              IF cmd = Chars("/clear") THEN <<>> ELSE conversation_history
        /\ auto_confirm' = IF cmd = Chars("/auto") THEN ~auto_confirm ELSE auto_confirm
        /\ UNCHANGED <<lpc, callVars>>

\* response = self.generate_response(prompt): the call begins
Prompted ==
    /\ Len(conversation_history) <= 2 * MaxExchanges
    /\ lpc' = "start"
    /\ messages' = <<>>
    /\ iteration' = 0
    /\ all_responses' = <<>>
    /\ all_tool_results' = <<>>
    /\ calls' = <<>>
    /\ idx' = 0
    /\ tool_results' = <<>>
    /\ returned' = NoReturn
    /\ ncompletions' = 0
    /\ nexecuted' = 0
    /\ UNCHANGED <<conversation_history, auto_confirm>>

InitSession ==
    /\ fs = InitialFs
    /\ sandbox_root = Cwd
    /\ spawned = <<>>
    /\ py39 = TRUE
    /\ IdleTools
    /\ IdleParse
    /\ user_input = <<>>
    /\ auto_confirm = FALSE
    /\ max_iterations = 1
    /\ conversation_history = <<>>
    /\ lpc = "idle"
    /\ messages = <<>>
    /\ iteration = 0
    /\ all_responses = <<>>
    /\ all_tool_results = <<>>
    /\ calls = <<>>
    /\ idx = 0
    /\ tool_results = <<>>
    /\ proc = NoProc
    /\ returned = NoReturn
    /\ ncompletions = 0
    /\ nexecuted = 0

\* one pass of the loop of interactive_mode, up to the generate_response call
ReadLine ==
    /\ lpc = "idle"
    /\ \E line \in UserLines :
          /\ user_input' = line
          /\ IF line = <<>> THEN UNCHANGED <<conversation_history, auto_confirm, lpc, callVars>>
             ELSE IF Lower(line) \in {Chars("quit"), Chars("exit"), Chars("q")}
             THEN lpc' = "off" /\ UNCHANGED <<conversation_history, auto_confirm, callVars>>
             ELSE IF Lower(line) \in {Chars("help"), Chars("tools")}
             THEN UNCHANGED <<conversation_history, auto_confirm, lpc, callVars>>
             ELSE IF Lower(line) = Chars("auto")
             THEN /\ auto_confirm' = ~auto_confirm
                  /\ UNCHANGED <<conversation_history, lpc, callVars>>
             ELSE IF line[1] = "/" THEN HandleCommand(line)
             ELSE Prompted
    /\ UNCHANGED <<max_iterations, proc, sysVars, toolVars, parseVars>>

\* display_response: back at the prompt
Displayed ==
    /\ lpc = "returned"
    /\ lpc' = "idle"
    /\ UNCHANGED <<user_input, auto_confirm, max_iterations, conversation_history, callVars,
                   proc, sysVars, toolVars, parseVars>>

SessionComplete == CompleteWith(SessionResponses)

NextSession ==
    \/ ReadLine
    \/ Displayed
    \/ StartGenerate
    \/ CompleteRaises
    \/ SessionComplete
    \/ Confirm
    \/ Execute

SpecSession == InitSession /\ [][NextSession]_vars

(***************************************************************************)
(* Closing-marker specification: one generate_response call on responses   *)
(* whose argument values hold the characters )]                            *)
(***************************************************************************)
\* the call read_file(file_path='f') as the model writes it
ReadCallText == RenderCall(s_read_file, RenderArg(s_file_path, "'", <<"f">>, FALSE))

\* file_path='f', content=<q>...<q> with the quote q
WriteArgsQuoted(q, content) ==
    RenderArg(s_file_path, "'", <<"f">>, FALSE) \o <<",", " ">>
    \o s_content \o <<"=">> \o q \o content \o q

\* the responses: a triple-quoted value that holds a whole call, a quoted
\* value that holds one, a quoted value that holds )] alone, a triple-quoted
\* value without )], and prose
ClosingResponses ==
    { Response("triple", <<>>,
               <<GenCall(s_write_file,
                         WriteArgsQuoted(TripleSingle,
                                         <<"a">> \o CallClose \o <<" ">> \o ReadCallText
                                         \o <<" ","b">>))>>, <<>>),
      Response("double", <<"o","k"," ">>,
               <<GenCall(s_write_file,
                         WriteArgsQuoted(<<"\"">>, <<"a">> \o CallClose \o ReadCallText))>>,
               <<>>),
      Response("single", <<>>,
               <<GenCall(s_write_file,
                         WriteArgsQuoted(<<"'">>, <<"a">> \o CallClose \o <<"b">>))>>, <<>>),
      Response("whole", <<>>,
               <<GenCall(s_write_file, WriteArgsQuoted(TripleSingle, <<"a","\n","b">>))>>,
               <<>>),
      Response("prose", <<" ","o","k">>, <<>>, <<"\n">>) }

ClosingComplete == CompleteWith(ClosingResponses)

NextClosing ==
    \/ StartGenerate
    \/ ClosingComplete
    \/ Confirm
    \/ Execute

SpecClosing == InitLoop /\ [][NextClosing]_vars

(***************************************************************************)
(* Claims about the tools                                                  *)
(***************************************************************************)
FileToolNames ==
    {s_read_file, s_write_file, s_append_file, s_list_directory, s_create_directory}

\* the canonical form of the path is neither the sandbox root nor below it
OutsideSandbox(path) == ~IsRelativeTo(Resolve(path), sandbox_root)

\* C1: a file tool called with a path whose canonical form is outside the
\* sandbox returns the failed access-denied result and leaves the file system
\* exactly as it was before the call.
C1_OutsideDenied ==
    (tcall.tool \in FileToolNames /\ OutsideSandbox(tcall.path))
        => (tres = Fail(AccessDenied) /\ fs = tprev)

\* write_file through the symbolic link, and create_directory on an absolute
\* path outside whose parent is missing, have been denied
C1_Witness ==
    /\ tcall.tool \in {s_write_file, s_create_directory}
    /\ tcall.path \in {<<"l","/","x">>, <<"/","o","/","n","/","x">>}
    /\ OutsideSandbox(tcall.path)
    /\ tres = Fail(AccessDenied)
    /\ fs = tprev

\* C18 as stated: the resolver denies a path exactly when its canonical form
\* is neither the sandbox root nor below it, and otherwise hands the tool the
\* canonical path: the root itself is accepted, a path leaving the root
\* through `..` or a symbolic link and a sibling whose name starts with the
\* root's name are denied.
C18_DeniedIffOutside ==
    tcall.tool \in FileToolNames =>
        /\ (tres = Fail(AccessDenied)) <=> OutsideSandbox(tcall.path)
        /\ tcall.tool = s_create_directory /\ tres.success =>
              Resolve(tcall.path) \in fs.dirs
        /\ tcall.tool = s_write_file /\ tres.success =>
              Resolve(tcall.path) \in DOMAIN fs.files

\* the command has tokens
HasTokens(command) == ShlexSplit(command).ok /\ ShlexSplit(command).parts # <<>>

\* the base name of the first token is allow-listed and, for git, the second
\* token is there and is an allowed subcommand
Permitted(command) ==
    /\ HasTokens(command)
    /\ LET parts == ShlexSplit(command).parts
           prog == Lower(BaseName(parts[1]))
       IN /\ prog \in AllowedPrograms
          /\ prog = s_git => (Len(parts) >= 2 /\ parts[2] \in AllowedGitSubcommands)

NotAllowedErrors ==
    {"Command is not allowed", "git subcommand required", "git subcommand is not allowed"}

SpawnedOnlyPermitted ==
    \A i \in DOMAIN spawned :
        spawned[i].tool = "run_command" => Permitted(spawned[i].command)

\* the timeout argument of the call passes run_command's validation
TimeoutAccepted == CoerceTimeout(tcall.timeout, IntOfStr(tcall.timeout.s)).err = ""

\* C2 as stated: a process is spawned only for a permitted command, and a
\* command whose program or git subcommand is not permitted gets the failed
\* not-allowed result with no process spawned.
C2_NotAllowedAlways ==
    /\ SpawnedOnlyPermitted
    /\ (tcall.tool = s_run_command /\ HasTokens(tcall.command) /\ ~Permitted(tcall.command))
           => (tres.error \in NotAllowedErrors /\ ~tres.success /\ spawned = <<>>)

\* C2: a process is spawned only for a permitted command; a command that is
\* not permitted gets a failed result with no process spawned, and that result
\* is the not-allowed one whenever the timeout argument is valid (the timeout
\* is validated before the allow-list is consulted).
C2_SpawnOnlyAllowed ==
    /\ SpawnedOnlyPermitted
    /\ (tcall.tool = s_run_command /\ ~Permitted(tcall.command))
           => (~tres.success /\ tres.error # "" /\ spawned = <<>>)
    /\ (tcall.tool = s_run_command /\ HasTokens(tcall.command) /\ ~Permitted(tcall.command)
            /\ TimeoutAccepted)
           => tres.error \in NotAllowedErrors

\* `git push` has been refused without a process
C2_Witness ==
    /\ tcall.tool = s_run_command
    /\ tcall.command = <<"g","i","t"," ","p","u","s","h">>
    /\ tres = Fail("git subcommand is not allowed")
    /\ spawned = <<>>

\* the numbers the timeout strings of the calls denote
DenotedNumbers ==
    (<<"1">> :> Num(1, 1)) @@ (<<"2">> :> Num(2, 1)) @@ (<<"1",".","5">> :> Num(15, 10))
    @@ (<<"0">> :> Num(0, 1)) @@ (<<"-","1">> :> Num(-1, 1))

\* a timeout argument read as a number: a number as it is, a numeric string as
\* the number it denotes, any other string as no number
Denoted(timeout) ==
    IF ~timeout.isstr THEN [numeric |-> TRUE, num |-> timeout.num]
    ELSE IF timeout.s \in DOMAIN DenotedNumbers
    THEN [numeric |-> TRUE, num |-> DenotedNumbers[timeout.s]]
    ELSE [numeric |-> FALSE, num |-> Num(0, 1)]

TimeoutErrors == {"Timeout must be a valid number", "Timeout must be a positive number"}

\* the call failed for its timeout argument, and no process was run
TimeoutRefused == ~tres.success /\ tres.error \in TimeoutErrors /\ spawned = <<>>

\* one process was run, with this number as its timeout
RanWithTimeout(num) == Len(spawned) = 1 /\ spawned[1].timeout = num

\* execute_python(code='x', timeout=...) is the call
PythonCodeCall ==
    /\ tcall.tool = s_execute_python
    /\ tcall.code = Some(<<"x">>)
    /\ ~tcall.file_path.some

EchoCall ==
    /\ tcall.tool = s_run_command
    /\ tcall.command = c_echo
    /\ ~tcall.cwd.some
    /\ ~tcall.input.some

\* what execute_python(code='x') does with the timeout of the current call
PythonWithSameTimeout ==
    tool_execute_python_body(tprev, sandbox_root, Some(<<"x">>), None, tcall.timeout)

\* C14 as stated: run_command accepts a timeout exactly when execute_python
\* accepts it, and then both run their process with the same number.
C14_SameCoercion ==
    EchoCall =>
        /\ (spawned # <<>>) <=> PythonWithSameTimeout.proc.live
        /\ TimeoutRefused <=> ~PythonWithSameTimeout.proc.live
        /\ spawned # <<>> => spawned[1].timeout = PythonWithSameTimeout.proc.timeout

\* how many of code and file_path the current execute_python call supplies
SourcesGiven ==
    (IF tcall.code.some THEN 1 ELSE 0) + (IF tcall.file_path.some THEN 1 ELSE 0)

\* C15 as stated: execute_python with neither or with both of code and
\* file_path fails with the argument error and runs nothing; a process is run
\* only when exactly one of them is given.
C15_ExactlyOneSource ==
    tcall.tool = s_execute_python /\ tcall.timeout = DefaultTimeout =>
        /\ SourcesGiven # 1 =>
              /\ tres = Fail("Either 'code' or 'file_path' must be provided")
              /\ spawned = <<>>
        /\ spawned # <<>> => SourcesGiven = 1

\* the current call is run_command with a cwd that is not None/none
CwdGiven == tcall.tool = s_run_command /\ tcall.cwd.some /\ ~IsNoneWord(tcall.cwd)

\* the checks of run_command that precede the working directory pass: the
\* timeout is accepted, the command tokenizes and is allow-listed
ReachesCwd ==
    /\ CoerceTimeout(tcall.timeout, IntOfStr(tcall.timeout.s)).err = ""
    /\ Permitted(tcall.command)

CwdDenied == tres = Fail("Access denied: cwd is outside sandbox") /\ spawned = <<>>

\* what is piped to the process for the input argument of the call
PipedInput == IF tcall.input.some /\ ~IsNoneWord(tcall.input) THEN tcall.input ELSE None

\* cwd None/none or not given runs in the default directory; the input is
\* piped unless it is None/none or not given
SentinelsAbsent ==
    tcall.tool = s_run_command /\ ReachesCwd =>
        /\ ~CwdGiven => Len(spawned) = 1 /\ spawned[1].cwd = Cwd
        /\ CwdGiven /\ ~OutsideSandbox(tcall.cwd.s) /\ spawned # <<>> =>
              spawned[1].cwd = Resolve(tcall.cwd.s)
        /\ spawned # <<>> => spawned[1].input = PipedInput

\* C19 as stated: a cwd that is given, not None/none and outside the sandbox
\* yields the failed cwd-denied result and no process; cwd None/none runs the
\* process in the default working directory; input None/none pipes nothing
\* and any other input is piped.
C19_CwdOutsideDenied ==
    /\ CwdGiven /\ OutsideSandbox(tcall.cwd.s) => CwdDenied
    /\ SentinelsAbsent

\* C19, amended: a cwd outside the sandbox never spawns a process and the
\* result is failed; it is the cwd-denied result when the timeout is accepted
\* and the command tokenizes and is allow-listed, the checks made before.
C19_CwdOutsideNoProcess ==
    /\ CwdGiven /\ OutsideSandbox(tcall.cwd.s) =>
          /\ spawned = <<>>
          /\ ~tres.success
          /\ ReachesCwd => CwdDenied
    /\ SentinelsAbsent

\* echo hi with cwd='None' ran in the default directory, echo hi with
\* cwd='../o' was denied, echo hi with input='hi' had it piped
C19_Witness ==
    /\ tcall.tool = s_run_command /\ tcall.command = c_echo
    /\ \/ tcall.cwd = Some(<<"N","o","n","e">>) /\ Len(spawned) = 1 /\ spawned[1].cwd = Cwd
          /\ tres.success
       \/ tcall.cwd = Some(<<".",".","/","o">>) /\ CwdDenied

\* execute_python(file_path=...) is the call, on a script that exists and
\* whose canonical path is outside the sandbox
OutsideScriptCall ==
    /\ tcall.tool = s_execute_python
    /\ tcall.timeout = DefaultTimeout
    /\ tcall.file_path.some
    /\ Exists(tprev, Resolve(tcall.file_path.s))
    /\ OutsideSandbox(tcall.file_path.s)

\* the results a process that was run leaves
ProcessResults ==
    {Catch(ProcessEnd(tprev, NoProc, outcome)).res : outcome \in ProcessOutcomes}

\* C21: execute_python runs an existing script whose canonical path is outside
\* the sandbox and returns the result of the process, not the access-denied
\* result; the file tools deny the same path.
C21_ScriptOutsideRuns ==
    /\ OutsideScriptCall =>
          /\ Len(spawned) = 1
          /\ spawned[1].argv = <<SysExecutable, tcall.file_path.s>>
          /\ tres \in ProcessResults
          /\ tres # Fail(AccessDenied)
          /\ fs = tprev
    /\ tcall.tool \in FileToolNames /\ Some(tcall.path) \in ToolScripts
       /\ OutsideSandbox(tcall.path) =>
          tres = Fail(AccessDenied)

\* the script ../o/s was run and exited with status 0
C21_Witness ==
    /\ OutsideScriptCall
    /\ tcall.file_path.s = <<".",".","/","o","/","s">>
    /\ Len(spawned) = 1
    /\ tres.success /\ tres.stdout = StdoutOf("exit0")

\* the tokens of the command a process was spawned for
PartsOf(p) == ShlexSplit(p.command).parts

\* the lower-cased base name of the first token
ProgOf(p) == Lower(BaseName(PartsOf(p)[1]))

\* C24: a process of run_command is spawned only for a first token whose
\* lower-cased base name is allow-listed; its executable is the current
\* interpreter when that name is python or python3 and the first token as given
\* otherwise, the remaining tokens unchanged; a permitted command with an
\* accepted timeout and no cwd argument is spawned.
C24_FirstTokenAsGiven ==
    /\ \A i \in DOMAIN spawned :
          spawned[i].tool = "run_command" =>
              /\ ProgOf(spawned[i]) \in AllowedPrograms
              /\ Len(spawned[i].argv) = Len(PartsOf(spawned[i]))
              /\ Tail(spawned[i].argv) = Tail(PartsOf(spawned[i]))
              /\ spawned[i].argv[1] =
                    IF ProgOf(spawned[i]) \in {s_python, s_python3}
                    THEN SysExecutable ELSE PartsOf(spawned[i])[1]
    /\ (/\ tcall.tool = s_run_command
        /\ Permitted(tcall.command)
        /\ TimeoutAccepted
        /\ ~CwdGiven) =>
          Len(spawned) = 1

\* /o/Echo hi was spawned as /o/Echo, or /o/Python3 x as the interpreter
C24_Witness ==
    /\ Len(spawned) = 1
    /\ spawned[1].tool = "run_command"
    /\ \/ spawned[1].argv = << <<"/","o","/","E","c","h","o">>, <<"h","i">> >>
       \/ /\ spawned[1].command = <<"/","o","/","P","y","t","h","o","n","3"," ","x">>
          /\ spawned[1].argv = << SysExecutable, <<"x">> >>

\* a file tool is the call, on a path that does not start with /
RelativeCall == tcall.tool \in FileToolNames /\ ~PathOf(tcall.path).abs

\* the canonical form of the working directory joined with the path
CwdJoined(path) == ResolveFrom(Cwd, PathOf(path).segs)

\* the canonical form of the sandbox root joined with the path
RootJoined(path) == ResolveFrom(sandbox_root, PathOf(path).segs)

\* C29: a relative path is taken against the working directory, not against
\* the sandbox root: every file tool denies it, changing nothing, unless the
\* working directory joined with it canonicalizes to the root or below, also
\* when the root joined with it would; a path that leads from the working
\* directory to below the root is accepted.
C29_RelativeAgainstCwd ==
    RelativeCall =>
        /\ ~IsRelativeTo(CwdJoined(tcall.path), sandbox_root) =>
              (tres = Fail(AccessDenied) /\ fs = tprev)
        /\ StartsWithRootSep(CwdJoined(tcall.path), sandbox_root) =>
              tres # Fail(AccessDenied)

\* the sandbox root is /w/d below the working directory /w: the path f, which
\* joined with the root is inside, was denied to write_file
C29_Witness ==
    /\ RelativeCall
    /\ tcall.tool = s_write_file
    /\ sandbox_root = Append(Cwd, <<"d">>)
    /\ tcall.path = <<"f">>
    /\ IsRelativeTo(RootJoined(tcall.path), sandbox_root)
    /\ ~IsRelativeTo(CwdJoined(tcall.path), sandbox_root)
    /\ tres = Fail(AccessDenied)
    /\ fs = tprev

(***************************************************************************)
(* Claims about the file tools called in sequence                          *)
(***************************************************************************)
\* the canonical form of the path is the sandbox root or below it
InsideSandbox(path) == IsRelativeTo(Resolve(path), sandbox_root)

\* no literal backslash-n and no literal backslash-t
NoEscapes(content) == ~Contains(content, EscapedNewline) /\ ~Contains(content, EscapedTab)

\* write_file(path, content) was the call before and read_file(path) is this one
WriteThenRead ==
    /\ tlast.call.tool = s_write_file
    /\ tcall.tool = s_read_file
    /\ tcall.path = tlast.call.path

\* both calls succeeded, what was read is what was written, and the write
\* reported its length
RoundTrip ==
    /\ tlast.res.success
    /\ tlast.res.bytes_written = Len(tlast.call.content)
    /\ tres.success
    /\ tres.content = tlast.call.content

\* before the call, the canonical path was free for a file: strictly below the
\* sandbox root, not a directory, and with no regular file among its ancestors
FreeForFile(fsb, path) ==
    /\ StartsWithRootSep(Resolve(path), sandbox_root)
    /\ ~IsDir(fsb, Resolve(path))
    /\ \A q \in Prefixes(Parent(Resolve(path))) : ~IsFile(fsb, q)

CreateTwice ==
    /\ tlast.call.tool = s_create_directory
    /\ tcall.tool = s_create_directory
    /\ tcall.path = tlast.call.path

\* C12 as stated: create_directory called twice in a row on any path inside
\* the sandbox succeeds both times, and the second call leaves the file system
\* as the first call left it.
C12_CreateIdempotent ==
    (CreateTwice /\ InsideSandbox(tcall.path))
        => (tlast.res.success /\ tres.success /\ fs = tprev)

(***************************************************************************)
(* Claims about the escape heuristic                                       *)
(***************************************************************************)
\* every \n read as a newline and every \t as a tab, left to right
RECURSIVE AllReplaced(_)
AllReplaced(c) ==
    IF c = <<>> THEN <<>>
    ELSE IF Len(c) >= 2 /\ c[1] = Backslash /\ c[2] \in {"n", "t"}
    THEN <<IF c[2] = "n" THEN "\n" ELSE "\t">> \o AllReplaced(SubSeq(c, 3, Len(c)))
    ELSE <<c[1]>> \o AllReplaced(Tail(c))

\* the signals other than comment markers: fence, LaTeX, structural tokens,
\* escaped quotes, a double backslash
OtherSignals ==
    { Fence,
      <<Backslash,"b","e","g","i","n","{">>,
      <<Backslash,"e","n","d","{">>,
      <<Backslash,"\"">>,
      <<Backslash,"'">>,
      <<Backslash,Backslash>> }
    \cup FormatIndicators

Flags == { <<"T","O","D","O",":">>, <<"F","I","X","M","E",":">>, <<"N","O","T","E",":">> }

\* the comment markers as such
BareMarkers == { <<"#">>, <<"/","/">>, <<"/","*">>, <<"-","-">> }

\* the comment markers followed by a space
SpacedMarkers == {m \o <<" ">> : m \in BareMarkers}

\* the content to persist when `signals` are the negative signals
Expected(content, signals) ==
    IF /\ ~NoEscapes(content)
       /\ \A sig \in signals : ~Contains(content, sig)
       /\ Count(content, <<Backslash,Backslash>>) <= 2
    THEN AllReplaced(content)
    ELSE content

\* what the file held before the call
HeldBefore(p) == IF p \in DOMAIN tprev.files THEN tprev.files[p] ELSE <<>>

\* the call wrote or appended `text` to its file
Persisted(text) ==
    /\ tres.success
    /\ tcall.content = targ
    /\ fs.files[Resolve(tcall.path)] =
          (IF tcall.tool = s_append_file THEN HeldBefore(Resolve(tcall.path)) ELSE <<>>)
          \o text

WriteOrAppend == tcall.tool \in {s_write_file, s_append_file}

IsPrefix(a, b) == Len(a) <= Len(b) /\ SubSeq(b, 1, Len(a)) = a

\* the step is the reading of a /clear command
ClearRead ==
    /\ lpc = "idle"
    /\ user_input' # <<>>
    /\ Lower(FirstWord(user_input')) = Chars("/clear")

\* the history part of the messages of the running call
HistoryPart == SubSeq(messages, 3, Len(messages) - 2 * iteration)

\* C22, steps: conversation_history changes only by growing at its end, or by
\* becoming empty when a /clear command is read.
C22_AppendOrClear ==
    [][\/ IsPrefix(conversation_history, conversation_history')
       \/ ClearRead /\ conversation_history' = <<>>]_vars

\* C22, window: the messages of every completion hold, of the history, its
\* last 6 entries at most.
C22_Window ==
    lpc = "generating" =>
        /\ Len(HistoryPart) <= HistoryWindow
        /\ \E k \in 0..HistoryWindow :
              /\ k <= Len(conversation_history)
              /\ k < HistoryWindow => k = Len(conversation_history)
              /\ HistoryPart = SubSeq(conversation_history,
                                      Len(conversation_history) - k + 1,
                                      Len(conversation_history))

\* C22: across prompts and commands the history only grows by appending and
\* is emptied only by /clear, and every completion sees at most its last 6
\* entries.
C22_HistoryGrows == C22_AppendOrClear /\ []C22_Window

\* a completion is requested with a history of 8 entries, of which it sees 6
C22_Witness ==
    /\ lpc = "generating"
    /\ Len(conversation_history) = 8
    /\ Len(HistoryPart) = 6
    /\ HistoryPart = SubSeq(conversation_history, 3, 8)

(***************************************************************************)
(* Claims about the loop                                                   *)
(***************************************************************************)
\* parse_and_execute_tools is running
InParse == lpc \in {"confirming", "executing", "waiting"}

\* what generate_response keeps of each response of the menu
KeptText == [r \in Responses |-> Strip(ResponseText(r))]

\* the responses of the menu whose text the last completion returned
LastGiven ==
    IF all_responses = <<>> THEN {}
    ELSE {r \in Responses : KeptText[r] = all_responses[Len(all_responses)]}

\* the feedback turn at the end of the message list
LastParts == messages[Len(messages)].parts

\* a feedback turn has just been appended: the next completion is due
AfterFeedback == lpc = "generating" /\ iteration > 0

ResultCount(entries) == Cardinality({k \in DOMAIN entries : entries[k].kind = "result"})

\* the entries recorded by this generate_response so far
EntriesSoFar == all_tool_results \o (IF InParse THEN tool_results ELSE <<>>)

\* the calls of the last response are the calls written in it, in order, and
\* the entries recorded are those of the calls before the current one (all of
\* them once the parser has returned), under the same names
C3_OnePerCallInOrder ==
    /\ \A r \in LastGiven :
          /\ Len(calls) = Len(r.gcalls)
          /\ \A k \in DOMAIN calls : calls[k].tool = r.gcalls[k].name
          /\ Len(tool_results) = IF InParse THEN idx - 1 ELSE Len(calls)
          /\ \A k \in DOMAIN tool_results : tool_results[k].tool = r.gcalls[k].name
    /\ InParse => idx \in 1..Len(calls)
    /\ proc.live <=> lpc = "waiting"

\* a call is confirmed or dispatched only when no process is running and the
\* entries of all earlier calls are recorded
C3_OneAtATime ==
    (nexecuted' # nexecuted \/ lpc = "confirming")
        => (~proc.live /\ Len(tool_results) = idx - 1 /\ nexecuted' \in {nexecuted, nexecuted + 1})

\* C3: parse_and_execute_tools returns one entry per call in the text, in
\* textual order, and handles the calls one after another: the k-th call has
\* ended (its process too) and its entry is recorded before the (k+1)-th is
\* confirmed or executed.
C3_Sequential == [](C3_OnePerCallInOrder) /\ [][C3_OneAtATime]_vars

\* the command timed out, its entry was recorded, and then the unknown tool was
\* dispatched and recorded
C3_Witness ==
    /\ ~InParse
    /\ Len(calls) = 2
    /\ Len(tool_results) = 2
    /\ tool_results[1].tool = s_run_command
    /\ tool_results[1].result.error = "Command timed out"
    /\ tool_results[2].tool = s_nope
    /\ tool_results[2].result.error = "Tool not found"

\* the completion just returned is one of the responses without a call
NoCallGiven == \E r \in LastGiven : r.gcalls = <<>>

\* C4: a completion without a recognizable tool call ends the loop on that
\* iteration, whatever budget remains: generate_response returns normally, no
\* tool runs, no feedback turn is appended and no completion is requested.
C4_NoCallsEndsLoop ==
    /\ [][(lpc = "generating" /\ Len(all_responses') = Len(all_responses) + 1 /\ NoCallGiven')
             => /\ lpc' = "returned"
                /\ returned'.kind = "ok"
                /\ nexecuted' = nexecuted
                /\ messages' = messages
                /\ fs' = fs
                /\ spawned' = spawned]_vars
    /\ [][lpc # "returned"]_vars

\* prose on the first of two iterations: returned after one completion
C4_Witness ==
    /\ lpc = "returned"
    /\ returned.kind = "ok"
    /\ max_iterations = 2
    /\ ncompletions = 1
    /\ NoCallGiven
    /\ nexecuted = 0
    /\ Len(messages) = 2

FeedbackTurns == Cardinality({k \in DOMAIN messages : messages[k].parts # <<>>})

C5_WithinBudget ==
    /\ ncompletions <= Max({max_iterations, 0})
    /\ FeedbackTurns <= Max({max_iterations - 1, 0})
    /\ (max_iterations > 0 /\ ncompletions = max_iterations)
           => lpc \in {"confirming", "executing", "waiting", "returned"}

FeedbackTurnsUpTo(k) == Cardinality({j \in 1..k : messages[j].parts # <<>>})

\* generate_response has returned its response, not the error message
ReturnedNormally == lpc = "returned" /\ returned.kind = "ok"

\* C26: when generate_response returns normally on a budget of at least one,
\* the feedback turns in the message list are one fewer than the completions
\* requested, the j-th of them right after the assistant turn with the j-th
\* response and holding one part per call of it; the calls of the last
\* completion were dispatched and are in the results, with no turn for them.
C26_FeedbackOneLess ==
    (ReturnedNormally /\ max_iterations >= 1) =>
        /\ ncompletions >= 1
        /\ ncompletions = Len(all_responses)
        /\ FeedbackTurns = ncompletions - 1
        /\ Len(messages) = 2 + 2 * FeedbackTurns
        /\ \A k \in DOMAIN messages :
              messages[k].parts # <<>> =>
                  /\ messages[k].role = "user"
                  /\ k > 1
                  /\ messages[k - 1] =
                        Message("assistant", all_responses[FeedbackTurnsUpTo(k)])
                  /\ Len(messages[k].parts) = Len(ParseCalls(all_responses[FeedbackTurnsUpTo(k)]))
        /\ Len(tool_results) = Len(calls)
        /\ calls = ParseCalls(all_responses[ncompletions])
        /\ Len(all_tool_results) >= Len(tool_results)
        /\ SubSeq(all_tool_results, Len(all_tool_results) - Len(tool_results) + 1,
                  Len(all_tool_results)) = tool_results

\* two completions with calls on a budget of two: the write of the second was
\* executed and the only feedback turn is the one for the first
C26_Witness ==
    /\ ReturnedNormally
    /\ max_iterations = 2
    /\ ncompletions = 2
    /\ FeedbackTurns = 1
    /\ Len(messages) = 4
    /\ Len(tool_results) = 1
    /\ tool_results[1].kind = "result" /\ tool_results[1].result.success
    /\ tool_results[1].tool = s_write_file
    /\ Len(all_tool_results) = 3

\* the step on which generate_response returns its error message
ErrorReturn == returned.kind # "error" /\ returned'.kind = "error"

\* C27: when a completion raises, generate_response returns the error message
\* on that step with conversation_history, the file system and the processes
\* run as they were; the history is untouched from the start of the call up to
\* any return, so it is then as it was before the call, and what the tools of
\* earlier iterations did to the file system stays.
C27_RaiseKeepsHistory ==
    /\ [][ErrorReturn =>
             /\ lpc = "generating" /\ lpc' = "returned"
             /\ ncompletions' = iteration + 1
             /\ conversation_history' = conversation_history
             /\ fs' = fs
             /\ spawned' = spawned
             /\ all_tool_results' = all_tool_results]_vars
    /\ [](lpc # "returned" => conversation_history = <<>>)
    /\ [](returned.kind = "error" => conversation_history = <<>>)

\* the second completion raised after the first had written the file f: the
\* file is there and the history is empty
C27_Witness ==
    /\ lpc = "returned"
    /\ returned.kind = "error"
    /\ ncompletions = 2
    /\ conversation_history = <<>>
    /\ Exists(fs, Resolve(<<"f">>))
    /\ fs # InitialFs
    /\ Len(all_tool_results) = 1 /\ all_tool_results[1].result.success

OpenReplies == {"y", "", "raise"}

\* the gate is consulted once for every call when auto_confirm is off, and
\* never when it is on; a call is executed only after it
OncePerCall ==
    /\ [](auto_confirm => lpc # "confirming")
    /\ [][/\ (lpc = "confirming" /\ lpc' = "confirming") => idx' = idx + 1
          /\ (lpc = "confirming" /\ lpc' = "executing") => idx' = idx
          /\ (~auto_confirm /\ lpc # "executing" /\ lpc' = "executing") => lpc = "confirming"
          /\ nexecuted' # nexecuted => lpc = "executing"]_vars

\* the entry the confirmation step recorded
GateEntry == tool_results'[Len(tool_results')]

\* C30 as stated: the call is executed exactly when the gate returns true, the
\* gate is consulted once per call, and it returns true on yes, on an empty
\* answer and when the read raises.
C30_GateFailsOpen ==
    /\ OncePerCall
    /\ [][\A reply \in ConfirmReplies, rich \in BOOLEAN :
              ConfirmWith(reply, rich) => (lpc' = "executing" <=> reply \in OpenReplies)]_vars

\* C30: as above, but a read that raises gives true only without Rich; with
\* Rich the exception leaves the gate, the call is not executed and its entry
\* is an error.
C30_GateFailsOpenPlain ==
    /\ OncePerCall
    /\ [][\A reply \in ConfirmReplies, rich \in BOOLEAN :
              ConfirmWith(reply, rich) =>
                  IF rich /\ reply = "raise"
                  THEN /\ lpc' # "executing"
                       /\ GateEntry = ErrorEntry(calls[idx].tool, "EOFError")
                       /\ nexecuted' = nexecuted /\ fs' = fs
                  ELSE IF reply \in OpenReplies
                  THEN lpc' = "executing" /\ tool_results' = tool_results
                  ELSE /\ lpc' # "executing"
                       /\ GateEntry = SkippedEntry(calls[idx].tool)
                       /\ nexecuted' = nexecuted /\ fs' = fs]_vars

\* with auto_confirm off the first call was executed after the gate and the
\* read for the second raised with Rich: one execution, an error entry
C30_Witness ==
    /\ ~auto_confirm
    /\ Len(tool_results) = 2
    /\ tool_results[1].kind = "result"
    /\ tool_results[2].kind = "error" /\ tool_results[2].error = "EOFError"
    /\ nexecuted = 1

\* C6: every execute_tool call returns a result dictionary (with an error when
\* it failed for an unknown tool, bad arguments, a timeout or a fault) and
\* never raises; a failed call is followed by the remaining calls of the
\* generation, and the feedback turn has one part per call.
C6_ExecuteToolNeverRaises ==
    /\ ResultCount(EntriesSoFar) = nexecuted - (IF lpc = "waiting" THEN 1 ELSE 0)
    /\ \A k \in DOMAIN EntriesSoFar :
          LET e == EntriesSoFar[k]
          IN e.kind = "result"
                => /\ "success" \in e.result.keys
                   /\ (~e.result.success /\ "stdout" \notin e.result.keys)
                         => ("error" \in e.result.keys /\ e.result.error # "")
    /\ ~InParse => Len(tool_results) = Len(calls)
    /\ AfterFeedback => (Len(LastParts) = Len(calls) /\ LastParts = Feedback(tool_results))

\* a call with a keyword its tool does not have failed with the TypeError as a
\* result, and the loop went on to the feedback turn
C6_Witness ==
    /\ AfterFeedback
    /\ Len(tool_results) = 1
    /\ tool_results[1].tool = s_read_file
    /\ tool_results[1].kind = "result"
    /\ tool_results[1].result = Fail("TypeError")
    /\ LastParts[1].kind = "failed"

\* C7 as stated: a declined call is not executed, the calls after it are still
\* processed, and it is reported as skipped, never as a failure, in the
\* feedback turn and in the summary.
C7_DeclinedIsSkipped ==
    /\ ResultCount(EntriesSoFar) = nexecuted - (IF lpc = "waiting" THEN 1 ELSE 0)
    /\ ~InParse => Len(tool_results) = Len(calls)
    /\ AfterFeedback =>
          \A k \in DOMAIN tool_results :
              tool_results[k].kind = "skipped" => LastParts[k].kind # "failed"
    /\ returned.kind = "ok" =>
          \A k \in DOMAIN all_tool_results :
              all_tool_results[k].kind = "skipped" => returned.summary[k].status = "Skipped"

\* the parameters of a tool_* method
KnownParams(name) == RequiredParams(name) \cup OptionalParams(name)

\* the keyword arguments of a call without those its tool does not have
WithoutUnknown(call) ==
    [k \in DOMAIN call.args \cap KnownParams(call.tool) |-> call.args[k]]

\* the call about to be dispatched has every required keyword and others
HasExtras ==
    /\ lpc = "executing"
    /\ calls[idx].tool \in ToolNames
    /\ RequiredParams(calls[idx].tool) \subseteq DOMAIN calls[idx].args
    /\ ~(DOMAIN calls[idx].args \subseteq KnownParams(calls[idx].tool))

\* the call about to be dispatched lacks a required keyword
LacksRequired ==
    /\ lpc = "executing"
    /\ calls[idx].tool \in ToolNames
    /\ ~(RequiredParams(calls[idx].tool) \subseteq DOMAIN calls[idx].args)

\* the entry the step records
NewEntry == tool_results'[Len(tool_results')]

\* the step does what execute_tool does with the keyword arguments `args`
DispatchesAs(args) ==
    \E st \in {ExecuteToolStart(fs, sandbox_root, calls[idx].tool, args)} :
        /\ fs' = st.fs
        /\ IF st.proc.live THEN lpc' = "waiting"
           ELSE lpc' # "waiting" /\ NewEntry = EntryOf(calls[idx].tool, st)

\* C16 as stated: a dispatched call with all required keys and unknown ones
\* does what the call without the unknown ones does; a call missing a required
\* key gets a failed result and changes nothing.
C16_UnknownKeysIgnored ==
    [][/\ HasExtras => DispatchesAs(WithoutUnknown(calls[idx]))
       /\ LacksRequired =>
             /\ fs' = fs /\ spawned' = spawned /\ lpc' # "waiting"
             /\ NewEntry.kind = "result"
             /\ ~NewEntry.result.success /\ NewEntry.result.error # ""]_vars

\* the current response is create_directory, write_file, read_file
ChainGiven ==
    /\ Len(calls) = 3
    /\ calls[1].tool = s_create_directory
    /\ calls[2].tool = s_write_file
    /\ calls[3].tool = s_read_file

\* the two lines with a real newline between them
TwoLines == <<"l","i","n","e","1","\n","l","i","n","e","2">>

ChainFile == Cwd \o << <<"d">>, <<"x">> >>

\* C17: under auto-confirm the response create_directory(d), write_file(d/x,
\* c) with c the triple-quoted literal line1\nline2, read_file(d/x) gives
\* three results in that order, all successful; the file is written below the
\* sandbox root and the content read is the two lines separated by a real
\* newline.
C17_ChainOfThree ==
    ChainGiven /\ auto_confirm =>
        /\ calls[2].args[s_content] = ChainContent
        /\ Len(tool_results) <= 3
        /\ \A k \in DOMAIN tool_results :
              /\ tool_results[k].tool = calls[k].tool
              /\ tool_results[k].kind = "result"
              /\ tool_results[k].result.success
        /\ Len(tool_results) >= 1 => (Cwd \o << <<"d">> >>) \in fs.dirs
        /\ Len(tool_results) >= 2 =>
              /\ ChainFile \in DOMAIN fs.files
              /\ IsRelativeTo(ChainFile, sandbox_root)
              /\ fs.files[ChainFile] = TwoLines
              /\ tool_results[2].result.bytes_written = Len(TwoLines)
        /\ Len(tool_results) = 3 => tool_results[3].result.content = TwoLines
        /\ ~InParse => Len(tool_results) = 3

C17_Witness ==
    /\ ChainGiven /\ auto_confirm
    /\ Len(tool_results) = 3
    /\ tool_results[3].tool = s_read_file
    /\ tool_results[3].result.success
    /\ tool_results[3].result.content = TwoLines
    /\ nexecuted >= 3

\* the entry is the result of a process that ran to its end
ProcessRan(e) ==
    /\ e.kind = "result"
    /\ e.tool \in {s_run_command, s_execute_python}
    /\ "stdout" \in e.result.keys

\* the entry is a failed result
FailedResult(e) == e.kind = "result" /\ ~e.result.success

\* C23 as stated: in the feedback turn, the part for a failed result holds the
\* result's error string, and the part for a process that ran holds the
\* output it wrote.
C23_FailuresAndOutputFedBack ==
    AfterFeedback =>
        \A k \in DOMAIN tool_results :
            /\ FailedResult(tool_results[k]) =>
                  /\ "error" \in tool_results[k].result.keys
                  /\ LastParts[k].kind = "failed"
                  /\ LastParts[k].error = tool_results[k].result.error
            /\ ProcessRan(tool_results[k]) =>
                  /\ LastParts[k].kind = "command_output"
                  /\ LastParts[k].text = tool_results[k].result.stdout

\* the length write_file reports for the content of a call
WrittenLength(call) == Len(Normalized(call.args[s_content]))

C10_Parts ==
    \A k \in DOMAIN tool_results :
        (tool_results[k].tool = s_write_file /\ EntrySuccess(tool_results[k]))
            => /\ tool_results[k].result.bytes_written = WrittenLength(calls[k])
               /\ IF WrittenLength(calls[k]) < 100
                  THEN LastParts[k].kind = "too_short" /\ LastParts[k].n = WrittenLength(calls[k])
                  ELSE LastParts[k].kind = "message"

C10_Examples ==
    \A r \in LastGiven :
        EntrySuccess(tool_results[1])
            => /\ r.id = "short" => (LastParts[1].kind = "too_short" /\ LastParts[1].n = 29)
               /\ r.id = "escaped" => (LastParts[1].kind = "too_short" /\ LastParts[1].n = 99)
               /\ r.id = "long" => LastParts[1].kind = "message"

\* C10: a successful write_file of fewer than 100 characters (counted after
\* escape normalization; 29 for instance) puts the too-short instruction for
\* that call into the next generation's input, in place of the success
\* message; a write of 100 or more (150 for instance) does not; and the
\* feedback runs no tool: the calls executed are the ones recorded.
C10_ShortWriteFeedback ==
    AfterFeedback
        => /\ C10_Parts
           /\ C10_Examples
           /\ nexecuted = ResultCount(all_tool_results)

\* after the write of 29 characters the next input carries the too-short
\* instruction, and the file holds the 29 characters
C10_Witness ==
    /\ AfterFeedback
    /\ iteration = 1
    /\ \E r \in LastGiven : r.id = "short"
    /\ EntrySuccess(tool_results[1])
    /\ LastParts[1].kind = "too_short"
    /\ LastParts[1].n = 29
    /\ fs.files[Append(Cwd, <<"f">>)] = Rep("x", 29)
    /\ nexecuted = 1

(***************************************************************************)
(* Claims about the parser                                                 *)
(***************************************************************************)
\* the value an argument is written to carry: an unquoted value trimmed, a quoted
\* one as it stands between its quotes
ArgValue(q, val) == IF q = "" THEN Strip(val) ELSE val

ExpectedSimple(d) ==
    IF d.mode = "empty" THEN EmptyArgs
    ELSE IF d.second.kind = "arg"
         THEN (s_file_path :> ArgValue(d.first.q, d.first.val))
              @@ (s_dir_path :> ArgValue(d.second.q, d.second.val))
         ELSE (s_file_path :> ArgValue(d.first.q, d.first.val))

ExpectedTriple(d) ==
    IF d.first.key = <<>> THEN (s_content :> d.content)
    ELSE (s_file_path :> ArgValue(d.first.q, d.first.val)) @@ (s_content :> d.content)

\* the body holds no triple-quote marker and `)]` only closes the call
PlainBody(text) ==
    /\ ~Contains(text, TripleSingle)
    /\ ~Contains(text, TripleDouble)
    /\ IndexOf(text, CallClose, 1) = Len(text) - 1

\* C8: a single well-formed call with simple key=value arguments (no triple-quote
\* marker, `)]` only at its end) parses to exactly one call of that name whose
\* mapping has exactly the written keys, each with its value trimmed and one pair
\* of quotes stripped; an empty body gives the empty mapping and a token without
\* `=` is dropped.
C8_SimpleCallParsed ==
    (ppc = "parsed" /\ pin.mode \in {"empty", "simple"} /\ PlainBody(ptext))
        => pcalls = <<[tool |-> pin.name, args |-> ExpectedSimple(pin)]>>

\* C8 witness: a quoted value holding a comma, followed by a token without `=`,
\* parsed to the one-key mapping
C8_Witness ==
    /\ ppc = "parsed"
    /\ pin.mode = "simple"
    /\ pin.first.q = "'"
    /\ pin.first.val = <<",", "a">>
    /\ pin.second.kind = "bare"
    /\ Len(pcalls) = 1
    /\ pcalls[1].args = (s_file_path :> <<",", "a">>)

\* C9 as claimed: a call with a triple-quoted argument parses to the mapping that
\* holds the content between the markers verbatim under the parameter before the
\* opening marker, and the preceding simple pair parsed quote-aware as in the
\* simple mode.
C9_TripleCallParsed ==
    (ppc = "parsed" /\ pin.mode = "triple")
        => pcalls = <<[tool |-> pin.name, args |-> ExpectedTriple(pin)]>>


(***************************************************************************)
(* Claims about the closing marker inside a value                          *)
(***************************************************************************)
\* the response the parser was given last
LastResponse == all_responses[Len(all_responses)]

\* the index of the ( that opens the first call of the text
FirstParen(text) == IndexOf(text, <<"(">>, IndexOf(text, ToolOpen, 1))

\* the index of the first )] after it
FirstClose(text) == IndexOf(text, CallClose, FirstParen(text) + 1)

\* the text between the two
TruncatedBody(text) == SubSeq(text, FirstParen(text) + 1, FirstClose(text) - 1)

\* the text right after that )]
AfterClose(text) == From(text, FirstClose(text) + 2)

\* the body holds one triple-quote marker and no second one
OneMarker(body) ==
    \E q \in {TripleSingle, TripleDouble} :
        Contains(body, q) /\ Len(SplitMax(body, q, 2)) = 2

\* the first )] of the text lies before the end of the call as it was written
ClosedEarly(text) ==
    IndexOf(text, ToolOpen, 1) # 0 /\ FirstClose(text) + 1 < Len(text)

\* C25: the body of a call ends at the first )] after its opening parenthesis,
\* also when that )] lies inside a quoted or triple-quoted value: the call has
\* the arguments the truncated body parses to (none when one triple-quote
\* marker is left, and the tool then fails), the scan for further calls goes on
\* right after that )], and every call found gets exactly one result entry.
C25_BodyEndsAtFirstClose ==
    all_responses # <<>> =>
        /\ IF IndexOf(LastResponse, ToolOpen, 1) = 0 THEN calls = <<>>
           ELSE /\ calls # <<>>
                /\ calls[1].args = ParseArgs(TruncatedBody(LastResponse))
                /\ Tail(calls) = ParseCalls(AfterClose(LastResponse))
                /\ OneMarker(TruncatedBody(LastResponse)) =>
                      /\ calls[1].args = EmptyArgs
                      /\ \A k \in DOMAIN tool_results :
                            (k = 1 /\ tool_results[k].kind = "result") =>
                                /\ ~tool_results[k].result.success
                                /\ tool_results[k].result.error = "TypeError"
        /\ IF InParse THEN Len(tool_results) = idx - 1
           ELSE Len(tool_results) = Len(calls)
        /\ \A k \in DOMAIN tool_results : tool_results[k].tool = calls[k].tool

\* the triple-quoted value that held a call: write_file without arguments
\* failed, the read_file written inside the value was dispatched, nothing was
\* written
C25_Witness ==
    /\ all_responses # <<>>
    /\ ClosedEarly(LastResponse)
    /\ OneMarker(TruncatedBody(LastResponse))
    /\ Len(calls) = 2 /\ Len(tool_results) = 2
    /\ calls[1] = [tool |-> s_write_file, args |-> EmptyArgs]
    /\ calls[2] = [tool |-> s_read_file, args |-> (s_file_path :> <<"f">>)]
    /\ tool_results[1].kind = "result" /\ ~tool_results[1].result.success
    /\ tool_results[2].kind = "result"
    /\ fs = InitialFs

=============================================================================
